-------------------------------- MODULE Ledger --------------------------------
(***************************************************************************)
(* What the knowledge graph and the diaries promise: facts that are only   *)
(* ever appended, with ids in order, and ended; diary entries that are     *)
(* only ever appended.  Each request takes effect in one step or not at    *)
(* all.                                                                    *)
(***************************************************************************)
EXTENDS Naturals, Sequences

CONSTANTS Agents, Triples, Texts, Days, None

VARIABLES facts, diary

Init == facts = <<>> /\ diary = [g \in Agents |-> <<>>]

Add(triple, day) ==
  /\ facts' = Append(facts, [id |-> Len(facts) + 1, triple |-> triple,
                             from |-> day, to |-> None])
  /\ UNCHANGED diary

Invalidate(triple, day) ==
  /\ facts' = [i \in DOMAIN facts |->
                 IF facts[i].triple = triple /\ facts[i].to = None
                 THEN [facts[i] EXCEPT !.to = day] ELSE facts[i]]
  /\ UNCHANGED diary

Write(g, text, day) ==
  /\ diary' = [diary EXCEPT ![g] = Append(@, [id |-> day, text |-> text])]
  /\ UNCHANGED facts

Next ==
  \E day \in Days :
    \/ \E triple \in Triples : Add(triple, day) \/ Invalidate(triple, day)
    \/ \E g \in Agents, text \in Texts : Write(g, text, day)

Spec == Init /\ [][Next]_<<facts, diary>>

=============================================================================
