---------------------------------- MODULE Frost ----------------------------------
(***************************************************************************)
(* FROST: distributed key generation and threshold signing of              *)
(* src/cpu/src/frost.cpp, under the checks the C ABI adds in               *)
(* src/cpu/src/impl/ufsecp_musig2.cpp.                                     *)
(*                                                                         *)
(* Every participant deals a share of its own polynomial to each of the    *)
(* others and broadcasts commitments to its coefficients.  Shares reach a  *)
(* participant in any order, and one of them may be another participant's, *)
(* a repeated one, a damaged one, or missing.  In SmallGroup a commitment  *)
(* is the coefficient itself.  The effective nonce of a signer,            *)
(* d_i + rho_i e_i, and the challenge are any scalars: all signers are     *)
(* given one list of nonce commitments, which the hashes take in its order.*)
(***************************************************************************)
EXTENDS SmallGroup

CONSTANTS Participants,   (* num_participants: identifiers are 1, 2, ...   *)
          Threshold,
          Polynomials,    (* the coefficients a participant may derive     *)
          NoValue

Ids == 1..Participants

ASSUME FrostAssumption ==
  /\ Participants \in Nat /\ Participants < Order
  /\ Threshold \in 2..Participants
  /\ Polynomials \subseteq [1..Threshold -> NonZero]

VARIABLES poly,   (* the coefficients of those that ran keygen_begin       *)
          pkg     (* the FrostKeyPackage of those that ran keygen_finalize *)

frostVars == <<poly, pkg>>

FrostInit == poly = [i \in Ids |-> NoValue] /\ pkg = [i \in Ids |-> NoValue]

-----------------------------------------------------------------------------
(* Key generation.                                                         *)

PowerOf(x, n) ==
  LET p[j \in Nat] == IF j = 0 THEN 1 ELSE Times(x, p[j - 1])
  IN  p[n]

(* Sum of A_j x^j: what poly_eval() makes of the coefficients by Horner's  *)
(* rule, and keygen_finalize() of the commitments with running powers.     *)
Evaluate(coeffs, x) == Sum([j \in DOMAIN coeffs |-> Times(coeffs[j], PowerOf(x, j - 1))])

Horner(coeffs, x) ==
  LET h[j \in 1..Len(coeffs) + 1] ==
        IF j > Len(coeffs) THEN 0 ELSE Plus(Times(h[j + 1], x), coeffs[j])
  IN  h[1]

Share(from, id) == [from |-> from, id |-> id, value |-> Horner(poly[from], id)]
Commitment(from) == [from |-> from, coeffs |-> poly[from]]

KeygenBegin(i) ==
  /\ poly[i] = NoValue
  /\ \E f \in Polynomials : poly' = [poly EXCEPT ![i] = f]
  /\ UNCHANGED pkg

DistinctSenders(s) == \A j, k \in DOMAIN s : s[j].from = s[k].from => j = k

GroupKey(commitments) == Sum([j \in DOMAIN commitments |-> commitments[j].coeffs[1]])

Verified(share, commitments, i) ==
  \E j \in DOMAIN commitments :
    /\ commitments[j].from = share.from
    /\ share.value = Evaluate(commitments[j].coeffs, i)

Finalized(i, commitments, shares) ==
  pkg' = [pkg EXCEPT ![i] = [signing_share |-> Sum([j \in DOMAIN shares |-> shares[j].value]),
                             group_public_key |-> GroupKey(commitments)]]

(* Broken variant: a sender may be counted twice.                          *)
KeygenFinalizeTwice(i, commitments, shares) ==
  /\ Len(commitments) = Participants /\ Len(shares) = Participants
  /\ DistinctSenders(commitments)
  /\ \A j \in DOMAIN shares : shares[j].id = i /\ Verified(shares[j], commitments, i)
  /\ GroupKey(commitments) # 0
  /\ Finalized(i, commitments, shares)
  /\ UNCHANGED poly

(* Anything else is refused, and the package is not handed out.            *)
KeygenFinalize(i, commitments, shares) ==
  /\ Len(commitments) = Participants /\ Len(shares) = Participants
  /\ DistinctSenders(commitments)
  /\ DistinctSenders(shares)
  /\ \A j \in DOMAIN shares : shares[j].id = i /\ Verified(shares[j], commitments, i)
  /\ GroupKey(commitments) # 0
  /\ Finalized(i, commitments, shares)
  /\ UNCHANGED poly

(* What may be delivered to i: in any order; one record another's, a copy  *)
(* or damaged; or one missing.                                             *)
Orders == {o \in [Ids -> Ids] : \A j, k \in Ids : o[j] = o[k] => j = k}

Reordered(s) == {[j \in Ids |-> s[o[j]]] : o \in Orders}

RightShares(i) == [j \in Ids |-> Share(j, i)]

SharesDelivered(i) ==
  Reordered(RightShares(i))
    \cup {[RightShares(i) EXCEPT ![j] = Share(from, id)] : j \in Ids, from \in Ids, id \in Ids}
    \cup {[RightShares(i) EXCEPT ![j].value = v] : j \in Ids, v \in Scalar}
    \cup {Tail(RightShares(i))}

RightCommitments == [j \in Ids |-> Commitment(j)]

CommitmentsDelivered ==
  Reordered(RightCommitments)
    \cup {[RightCommitments EXCEPT ![j] = Commitment(from)] : j \in Ids, from \in Ids}
    \cup {Tail(RightCommitments)}

FrostNext ==
  \/ \E i \in Ids : KeygenBegin(i)
  \/ /\ \A i \in Ids : poly[i] # NoValue
     /\ \E i \in Ids, cs \in CommitmentsDelivered : \E ss \in SharesDelivered(i) :
          KeygenFinalize(i, cs, ss)

FrostSpec == FrostInit /\ [][FrostNext]_frostVars

-----------------------------------------------------------------------------
(* Signing by the participants of S, with effective nonces k.              *)

(* Broken variant: the factors of the denominator have the other sign.     *)
LagrangeSwapped(i, S) ==
  Times(Product([j \in S \ {i} |-> j]),
        Reciprocal(Product([j \in S \ {i} |-> Minus(i, j)])))

LagrangeCoefficient(i, S) ==
  Times(Product([j \in S \ {i} |-> j]),
        Reciprocal(Product([j \in S \ {i} |-> Minus(j, i)])))

ForEvenY(x, P) == IF HasEvenY(P) THEN x ELSE Neg(x)

(* Broken variant: the share is used as if the group key had an even Y.    *)
FrostSignUnsigned(i, S, ki, R, e) ==
  Plus(ForEvenY(ki, R), Times(Times(LagrangeCoefficient(i, S), pkg[i].signing_share), e))

(* z_i; the C ABI refuses a zero share and hands out no zero z_i.          *)
FrostSign(i, S, ki, R, e) ==
  Plus(ForEvenY(ki, R),
       Times(Times(LagrangeCoefficient(i, S), ForEvenY(pkg[i].signing_share, pkg[i].group_public_key)), e))

FrostVerifyPartial(i, S, z, ki, R, e) ==
  z = Plus(ForEvenY(ki, R),
           Times(ForEvenY(pkg[i].signing_share, pkg[i].group_public_key),
                 Times(LagrangeCoefficient(i, S), e)))

(* The scalar of the aggregate signature; zero is a refusal.               *)
FrostAggregate(z, R) == IF R = 0 THEN 0 ELSE Sum(z)

(* The sets of participants that can sign.                                 *)
Quorums == {S \in SUBSET {i \in Ids : pkg[i] # NoValue} : Cardinality(S) >= Threshold}

-----------------------------------------------------------------------------
(* Whatever was delivered, those whose key generation succeeded agree on   *)
(* the group key, and any quorum of them interpolates its secret: the sum  *)
(* of the constant terms of all polynomials.                               *)
SharesInterpolate ==
  \A S \in Quorums : \A i \in S :
    /\ pkg[i].group_public_key = Sum([j \in Ids |-> poly[j][1]])
    /\ pkg[i].group_public_key
         = Sum([j \in S |-> Times(LagrangeCoefficient(j, S), pkg[j].signing_share)])

(* Partial signatures of a quorum verify if all are handed out, and so     *)
(* does their aggregate, under the group key with BIP-340, unless it is    *)
(* refused: for every parity of the group key and of R.                    *)
FrostSignaturesVerify ==
  \A S \in Quorums : \A k \in [S -> Scalar], e \in NonZero :
    LET R == Sum(k)
        z == [i \in S |-> FrostSign(i, S, k[i], R, e)]
        Y == pkg[CHOOSE i \in S : TRUE].group_public_key
    IN  R # 0 /\ (\A i \in S : pkg[i].signing_share # 0 /\ z[i] # 0)
          => /\ \A i \in S : FrostVerifyPartial(i, S, z[i], k[i], R, e)
             /\ FrostAggregate(z, R) # 0 => SchnorrVerify(FrostAggregate(z, R), R, Y, e)
================================================================================
