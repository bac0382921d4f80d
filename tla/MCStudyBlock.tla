---------------------------- MODULE MCStudyBlock ----------------------------
(***************************************************************************)
(* Two workers that run a block's calls and use another id as well, and a  *)
(* third thread that uses only the other id; as many lock objects as can   *)
(* be referenced at once.                                                  *)
(***************************************************************************)
EXTENDS StudyBlock, TLC

CONSTANTS DeckCalls, TestCalls
Calls == [deck |-> DeckCalls, test |-> TestCalls]

\* Workers are alike, and so are lock objects.
Alike == Permutations(Workers) \cup Permutations(LockIds)

\* The id an idle thread asked for last says nothing about what it does next.
Seen == <<entry, owner, pc, [t \in Threads |-> IF pc[t] = "idle" THEN Nothing ELSE key[t]], ref,
          kind, test, deck, loop, work, calls>>
=============================================================================
