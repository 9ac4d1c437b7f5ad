----------------------------- MODULE LeasedWork -----------------------------
(***************************************************************************)
(* What a table of leased work promises, whoever polls it: an item that is *)
(* waiting is handed out under a fresh token, at most MaxTries times per   *)
(* round; it is taken back only after its lease has lapsed, and ended only *)
(* by the use of the current token.  The request queue, the webhook        *)
(* deliveries and the credential canaries implement this specification.    *)
(***************************************************************************)
EXTENDS Naturals

CONSTANTS
  Items,
  MaxTries,    \* leases of one item per round
  Redelivers,  \* whether a holder may give an item back, and dead items be replayed
  Lenient      \* whether a lapsed lease still counts while nobody has taken it back

VARIABLES
  item,     \* phase, round and tries of each item
  holding   \* the tokens that somebody still has, with their items

workVars == <<item, holding>>

Token(x) == <<x.round, x.tries>>

Init ==
  /\ item = [i \in Items |-> [phase |-> "none", round |-> 0, tries |-> 0]]
  /\ holding = {}

Change(i, x) == item' = [item EXCEPT ![i] = x]

\* A new item, or a dead one in a new round
Offer(i) ==
  /\ \/ item[i].phase = "none" /\ Change(i, [item[i] EXCEPT !.phase = "waiting"])
     \/ /\ Redelivers /\ item[i].phase = "dead"
        /\ Change(i, [item[i] EXCEPT !.phase = "waiting", !.round = @ + 1, !.tries = 0])
  /\ UNCHANGED holding

\* A lapsed lease is taken back; the item waits again or has used up its tries.
Returned(x, y) ==
  /\ x.phase = "lapsed"
  /\ y = [x EXCEPT !.phase = IF x.tries < MaxTries THEN "waiting" ELSE "dead"]

\* A waiting item, or one whose lapsed lease is taken back in the same step, is
\* leased.  The lease may have lapsed when the poll that took it commits.
Leased(x, y) ==
  /\ x.phase \in {"waiting", "lapsed"}
  /\ x.tries < MaxTries
  /\ \E phase \in {"held", "lapsed"} : y = [x EXCEPT !.phase = phase, !.tries = @ + 1]

\* One poll may do so for any number of items.
Poll ==
  /\ \A i \in Items :
       item'[i] = item[i] \/ Returned(item[i], item'[i]) \/ Leased(item[i], item'[i])
  /\ holding' = holding \cup {<<i, Token(item'[i])>> : i \in {j \in Items : Leased(item[j], item'[j])}}

\* The current token is used to end the item, or to give it back for another try: no
\* other token is given up for it.
Settle(i) ==
  /\ item[i].phase = "held" \/ (Lenient /\ item[i].phase = "lapsed")
  /\ <<i, Token(item[i])>> \in holding
  /\ \E phase \in {"done", "dead"}
                  \cup (IF Redelivers /\ item[i].tries < MaxTries THEN {"waiting"} ELSE {}) :
       Change(i, [item[i] EXCEPT !.phase = phase])
  /\ holding \ {<<i, Token(item[i])>>} \subseteq holding' /\ holding' \subseteq holding

\* Time passes.
Lapse ==
  /\ \A i \in Items : \/ item'[i] = item[i]
                      \/ item[i].phase = "held" /\ item'[i] = [item[i] EXCEPT !.phase = "lapsed"]
  /\ UNCHANGED holding

\* A holder stops, or gives up a token.
Forget == holding' \subseteq holding /\ UNCHANGED item

Next == Poll \/ Lapse \/ Forget \/ \E i \in Items : Offer(i) \/ Settle(i)

Spec == Init /\ [][Next]_workVars
=============================================================================
