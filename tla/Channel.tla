---------------------------------- MODULE Channel ----------------------------------
(***************************************************************************)
(* What an authenticated channel between two ends promises, whatever       *)
(* carries it: each end receives what the other one sent, in that order,   *)
(* nothing left out, nothing twice and nothing else.                       *)
(***************************************************************************)
EXTENDS Integers, Sequences

CONSTANTS Ends, Payloads

VARIABLES sent, received   (* of each end, in order                        *)

Init ==
  /\ sent = [p \in Ends |-> <<>>]
  /\ received = [p \in Ends |-> <<>>]

Send(p) ==
  /\ \E m \in Payloads : sent' = [sent EXCEPT ![p] = Append(@, m)]
  /\ UNCHANGED received

(* The next payload of the other end.                                      *)
Receive(p) ==
  /\ \E q \in Ends \ {p} :
       /\ Len(received[p]) < Len(sent[q])
       /\ received' = [received EXCEPT ![p] = Append(@, sent[q][Len(@) + 1])]
  /\ UNCHANGED sent

Next == \E p \in Ends : Send(p) \/ Receive(p)

Spec == Init /\ [][Next]_<<sent, received>>
================================================================================
