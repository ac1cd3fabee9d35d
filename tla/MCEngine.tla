--------------------------------- MODULE MCEngine ---------------------------------
(***************************************************************************)
(* The components that share nothing, each on a small instance, in one     *)
(* state space: the first state chooses one of them, the others stay as    *)
(* they are before anything has happened.  The two halves of the comb, a   *)
(* context with its file and the process-wide context, share no state      *)
(* either.                                                                 *)
(***************************************************************************)
EXTENDS MusigTweak, Frost, CombTable, ContextBlinding, ProcessResources, Bip324,
        BatchEquations

VARIABLE part

Parts == {"tweak", "frost", "comb file", "comb once", "blinding", "resources", "bip324",
          "batch schnorr", "batch ecdsa"}

(* Four of the 36 polynomials: group keys and shares of either sign, and   *)
(* constant terms that cancel.                                             *)
MCPolynomials == {<<1, 1>>, <<2, 5>>, <<4, 6>>, <<6, 3>>}

(* A signature that is valid, one that is not, and one whose r is on no    *)
(* point.  With digests 0 and 3, the weights 1 and 3, three invalid ones   *)
(* can cancel.                                                             *)
MCSchnorrEntries ==
  {[r |-> 1, key |-> 2, e |-> 1, s |-> 3], [r |-> 1, key |-> 2, e |-> 1, s |-> 4],
   [r |-> 0, key |-> 2, e |-> 1, s |-> 3]}

(* Valid with a low and a high S, with an X that wraps, and with another   *)
(* hash; wrong; r, s, the key and the point zero.                          *)
MCEcdsaEntries ==
  {[r |-> 2, s |-> 2, key |-> 2, z |-> 1], [r |-> 2, s |-> 5, key |-> 2, z |-> 1],
   [r |-> 1, s |-> 2, key |-> 2, z |-> 1], [r |-> 5, s |-> 1, key |-> 2, z |-> 1],
   [r |-> 5, s |-> 1, key |-> 2, z |-> 2],
   [r |-> 0, s |-> 2, key |-> 2, z |-> 1], [r |-> 2, s |-> 0, key |-> 2, z |-> 1],
   [r |-> 2, s |-> 2, key |-> 0, z |-> 4], [r |-> 3, s |-> 1, key |-> 2, z |-> 1]}

(* X of the points 1, 2 and 3, in a field of 11.                           *)
MCXCoordinate == <<2, 8, 5>>

EngineInit ==
  /\ part \in Parts
  /\ IF part = "tweak" THEN TweakInit
     ELSE d = [i \in Signers |-> 1] /\ coef = [i \in Signers |-> 1] /\ TweakInit
  /\ FrostInit /\ CombInit /\ BlindingInit /\ ResourcesInit
  /\ IF part = "batch ecdsa" THEN EquationsInit ELSE rows = <<>> /\ EquationsInit
  /\ IF part = "bip324" THEN Bip324Init
     ELSE Bip324Init /\ privkey = [p \in Peers |-> TRUE]

EngineNext ==
  /\ UNCHANGED part
  /\ part = "tweak" => TweakNext
  /\ part # "tweak" => UNCHANGED tweakVars
  /\ part = "frost" => FrostNext
  /\ part # "frost" => UNCHANGED frostVars
  /\ part = "comb file" => CombFileNext
  /\ part = "comb once" => CombOnceNext
  /\ part \notin {"comb file", "comb once"} => UNCHANGED combVars
  /\ part = "blinding" => BlindingNext
  /\ part # "blinding" => UNCHANGED blindingVars
  /\ part = "resources" => ResourcesNext
  /\ part # "resources" => UNCHANGED resourceVars
  /\ part = "batch schnorr" => SchnorrBatchNext
  /\ part = "batch ecdsa" => EcdsaBatchNext
  /\ part \notin {"batch schnorr", "batch ecdsa"} => UNCHANGED equationVars
  /\ part = "bip324" => Bip324Next
  /\ part # "bip324" => UNCHANGED bip324Vars

engineVars == <<part, tweakVars, frostVars, combVars, blindingVars, resourceVars, bip324Vars,
                equationVars>>

(* The fairness is that of Bip324FairSpec.                                 *)
EngineSpec ==
  /\ EngineInit /\ [][EngineNext]_engineVars
  /\ \A p \in Peers : WF_bip324Vars(Deliver(p))
==================================================================================
