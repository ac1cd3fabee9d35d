--------------------------------- MODULE BatchCalls --------------------------------
(***************************************************************************)
(* A batch that is signed and then verified: one thread calls sign_batch() *)
(* (module BatchSign) and, whatever it returned, its output goes to        *)
(* concurrent column verifications (module BatchVerify), as it is or with  *)
(* its last row spoilt on the way.                                         *)
(***************************************************************************)
EXTENDS BatchSign, BatchVerify

vars == <<signVars, verifyVars>>

Init == SignInit /\ VerifyInit

(* What a verifier makes of a slot: zeros are no signature.                *)
AsRow(slot) == IF slot = "sig" THEN "valid" ELSE "invalid"

Signed == [i \in 1..count |-> AsRow(sigs[i - 1])]

(* The columns of a call.                                                  *)
Columns == {Signed, [Signed EXCEPT ![count] = "unparsable"]}

Verify(c) == pc = "done" /\ ret # "BAD_INPUT" /\
  \E results \in BOOLEAN :
    \/ \E rows \in Columns : VerifyCall(c, rows, results)
    \/ VerifyRefused(c, count, results)

Next ==
  \/ SignNext /\ UNCHANGED verifyVars
  \/ (\E c \in Callers : Verify(c) \/ VerifyStep(c)) /\ UNCHANGED signVars
  \/ (InstallHook \/ AvailableQuery) /\ UNCHANGED signVars

(* Threads run, and a mutex that is freed again and again is obtained.     *)
Fairness ==
  /\ WF_vars(SignCall /\ UNCHANGED verifyVars)
  /\ WF_vars((SerialRow \/ SerialEnd \/ Spawn \/ SpawnEnd \/ Join) /\ UNCHANGED verifyVars)
  /\ \A t \in Threads : WF_vars((LoadError(t) \/ SignRow(t) \/ ZeroRest(t) \/ Exit(t)) /\ UNCHANGED verifyVars)
  /\ \A c \in Callers : /\ SF_vars(LockAndProbe(c) /\ UNCHANGED signVars)
                        /\ WF_vars(VerifyStep(c) /\ UNCHANGED signVars)

Spec == Init /\ [][Next]_vars /\ Fairness

-----------------------------------------------------------------------------
(* A batch that was signed verifies, and of one that was not no row does:  *)
(* a caller that ignores the error publishes nothing.                      *)
RoundTrip == \A c \in Callers : vpc[c] = "done" /\ batch[c] = Signed =>
  /\ verdict[c] <=> ret = "OK"
  /\ wants[c] => \A i \in 1..count : out[c][i] = IF ret = "OK" THEN 1 ELSE 0

(* Every call returns: no thread waits for another that waits for it, and  *)
(* nobody is kept from the device's mutex.  (A signer that could not start *)
(* a thread does not return.)                                              *)
EveryCallEnds ==
  /\ pc = "spawn" ~> pc \in {"done", "terminated"}
  /\ \A c \in Callers : vpc[c] = "load" ~> vpc[c] = "done"

-----------------------------------------------------------------------------
(* Nothing is verified before it is signed.                                *)
SignedFirst == pc # "done" \/ ret = "BAD_INPUT" => \A c \in Callers : vpc[c] = "idle"

IInv == SignInv /\ VerifyInv /\ SignedFirst
================================================================================
