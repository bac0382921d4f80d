--------------------------- MODULE MCWikiPermissions ---------------------------
EXTENDS WikiPermissions, TLC

CONSTANTS e1, e2, d, u, pg, chat

\* One answer edits and deletes the same page.
EditAndDelete == e1 :> "edit" @@ d :> "delete"
EditsAndDelete == e1 :> "edit" @@ e2 :> "edit" @@ d :> "delete"
SameAnswer == [r \in Requests |-> u]
SamePage == [r \in Requests |-> pg]
OneChat == u :> chat

\* One edit.
LoneEdit == e1 :> "edit"

\* Clicks are alike, and so are Undos.
Alike == Permutations(Clicks) \cup Permutations(Undos)
===============================================================================
