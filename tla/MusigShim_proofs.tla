--------------------------- MODULE MusigShim_proofs ---------------------------
(***************************************************************************)
(* Proofs about MusigShim, for any number of structs, signers, groups,     *)
(* tweaks and calls: IInv is inductive (one lemma per action), and the     *)
(* safety properties follow from it.                                       *)
(***************************************************************************)
EXTENDS MusigShim, FiniteSetTheorems, TLAPS

(* A range of numbers below a bound grows with the bound.                  *)
LEMMA RangeGrows ==
  ASSUME NEW m \in Int, NEW n \in Int, m <= n
  PROVE  1..(m - 1) \subseteq 1..(n - 1)
OBVIOUS

USE MusigShimAssumption DEF Tokens, registry, nonceVars, sessionVars, results

(* What the types say of the parts of the records.                         *)
LEMMA Fields ==
  ASSUME TypeOK
  PROVE  /\ counter \in Nat /\ nonces \in Nat
         /\ \A t \in Tokens : /\ entry[t].group \in Groups /\ entry[t].group \subseteq Signers
                            /\ entry[t].tweaks \in 0..MaxTweaks /\ entry[t].owner \in Caches
         /\ \A b \in begun : /\ b.tok \in Tokens /\ b.id \in 1..MaxSessions /\ b.tweaks \in 0..MaxTweaks
                            /\ b \in Session
         /\ \A i \in Signers : signing[i] # None =>
              /\ signing[i].tok \in Tokens /\ signing[i].nonce \in 1..nonces
              /\ signing[i].sess \in begun
         /\ \A p \in psigs : p.nonce \in 1..nonces /\ p.tok \in Tokens /\ p.signer \in Signers
         /\ \A s \in Sessions : session[s] # None => session[s] \in begun
         /\ \A s \in Sessions : aggregating[s] # None => session[s] \in begun
BY DEF TypeOK, Session, InFlight, Partial

(* The types grow with the tokens, the nonces and the sessions.            *)
LEMMA TypesGrow ==
  ASSUME TypeOK, counter' \in Nat, counter <= counter', nonces' \in Nat, nonces <= nonces',
         begun \subseteq begun'
  PROVE  /\ Tokens \subseteq Tokens'
         /\ Session \subseteq Session' /\ InFlight \subseteq InFlight'
         /\ Partial \subseteq Partial' /\ Signature \subseteq Signature'
<1>1. Tokens \subseteq Tokens'
  <2>1. counter \in Int /\ counter' \in Int
    BY DEF TypeOK
  <2> QED
    BY <2>1, RangeGrows
<1>2. 1..nonces \subseteq 1..nonces'
  BY DEF TypeOK
<1> HIDE DEF Tokens
<1>3. InFlight \subseteq InFlight' /\ Partial \subseteq Partial' /\ Signature \subseteq Signature'
  BY <1>1, <1>2 DEF InFlight, Partial, Signature
<1>4. ASSUME NEW group \in Groups, NEW f \in [group -> 1..nonces] PROVE f \in [group -> 1..nonces']
  BY <1>2, <1>4
<1>5. UNION {[group -> 1..nonces] : group \in Groups} \subseteq UNION {[group -> 1..nonces'] : group \in Groups}
  BY <1>4
<1>6. Session \subseteq Session'
  BY <1>1, <1>5 DEF Session
<1> QED
  BY <1>1, <1>3, <1>6

LEMMA InitInv == Init => IInv
<1> SUFFICES ASSUME Init PROVE IInv
  OBVIOUS
<1>1. TypeOK
  BY DEF Init, TypeOK
<1>2. IsFiniteSet(begun)
  BY FS_EmptySet DEF Init
<1> QED
  BY <1>1, <1>2 DEF Init, IInv, NonceOnce, OwnEntry, AggregateVerifies, NoncePlace, SessionKept, OneSession

LEMMA StutterStep == IInv /\ UNCHANGED vars => IInv'
<1> SUFFICES ASSUME IInv, UNCHANGED vars PROVE IInv'
  OBVIOUS
<1>1. TypeOK'
  BY DEF vars, IInv, TypeOK, Session, InFlight, Partial, Signature
<1>2. NonceOnce' /\ OwnEntry' /\ AggregateVerifies' /\ NoncePlace'
  BY DEF vars, IInv, NonceOnce, OwnEntry, AggregateVerifies, NoncePlace
<1>3. SessionKept' /\ OneSession'
  BY DEF vars, IInv, SessionKept, OneSession
<1> QED
  BY <1>1, <1>2, <1>3 DEF IInv

(* IInv is kept by a new aggregation.                                       *)
LEMMA PubkeyAggStep ==
  ASSUME IInv, NEW c \in Caches, NEW group \in Groups, PubkeyAgg(c, group)
  PROVE  IInv'
<1> USE DEF PubkeyAgg
<1>1. TypeOK'
  <2>0. /\ Tokens \subseteq Tokens'
        /\ Session \subseteq Session' /\ InFlight \subseteq InFlight'
        /\ Partial \subseteq Partial' /\ Signature \subseteq Signature'
    BY TypesGrow DEF IInv, TypeOK
  <2>1. counter' \in 1..(MaxTokens + 1)
    BY <2>0 DEF IInv, TypeOK
  <2>2. entry' \in [Tokens' -> [group : Groups, tweaks : 0..MaxTweaks, owner : Caches]]
    BY <2>0 DEF IInv, TypeOK
  <2>3. live' \subseteq Tokens' /\ cache' \in [Caches -> {0} \cup Tokens']
    BY <2>0 DEF IInv, TypeOK
  <2>4. nonces' \in 0..MaxNonces /\ secnonce' \in [Signers -> 0..nonces'] /\ pubnonce' \in [Signers -> 0..nonces']
    BY <2>0 DEF IInv, TypeOK
  <2>5. begun' \subseteq Session'
    BY <2>0 DEF IInv, TypeOK
  <2>6. session' \in [Sessions -> begun' \cup {None}]
    BY <2>0 DEF IInv, TypeOK
  <2>7. signing' \in [Signers -> InFlight' \cup {None}]
    BY <2>0 DEF IInv, TypeOK
  <2>8. psigs' \subseteq Partial'
    BY <2>0 DEF IInv, TypeOK
  <2>9. \A p \in psigs' : p.signer \in entry'[p.tok].group
    <3>1. ASSUME NEW p \in psigs PROVE p.signer \in entry'[p.tok].group
      <4>1. p.tok \in Tokens /\ p.tok # counter
        BY Fields DEF IInv
      <4>2. entry'[p.tok] = entry[p.tok]
        BY <4>1
      <4> QED
        BY <4>2 DEF IInv, TypeOK
    <3> QED
      BY <3>1
  <2>10. aggregating' \in [Sessions -> {None, "hit", "miss"}]
    BY <2>0 DEF IInv, TypeOK
  <2>11. \A u \in Sessions : aggregating'[u] # None => session'[u] # None
    BY <2>0 DEF IInv, TypeOK
  <2>12. ended' \subseteq 1..MaxSessions /\ misused' \subseteq Tokens'
    BY <2>0 DEF IInv, TypeOK
  <2>13. sigs' \subseteq Signature'
    BY <2>0 DEF IInv, TypeOK
  <2> QED
    BY <2>1, <2>2, <2>3, <2>4, <2>5, <2>6, <2>7, <2>8, <2>9, <2>10, <2>11, <2>12, <2>13 DEF TypeOK
<1>2. NonceOnce'
  BY DEF IInv, TypeOK, NonceOnce, NoncePlace
<1>3. OwnEntry'
  BY DEF IInv, TypeOK, OwnEntry
<1>4. AggregateVerifies'
  BY DEF IInv, TypeOK, AggregateVerifies
<1>5. NoncePlace'
  BY DEF IInv, TypeOK, NonceOnce, NoncePlace
<1>6. SessionKept'
  <2>1. ASSUME NEW b \in begun PROVE entry'[b.tok] = entry[b.tok]
    <3>1. b.tok \in Tokens /\ b.tok # counter
      BY Fields DEF IInv
    <3> QED
      BY <3>1
  <2> QED
    BY <2>1 DEF IInv, SessionKept
<1>7. OneSession'
  BY DEF IInv, TypeOK, OneSession
<1> QED
  BY <1>1, <1>2, <1>3, <1>4, <1>5, <1>6, <1>7 DEF IInv

(* IInv is kept by a tweak.                                                 *)
LEMMA TweakAddStep ==
  ASSUME IInv, NEW c \in Caches, TweakAdd(c)
  PROVE  IInv'
<1> USE DEF TweakAdd, KaGet
<1>1. TypeOK'
  <2>0. /\ Tokens \subseteq Tokens'
        /\ Session \subseteq Session' /\ InFlight \subseteq InFlight'
        /\ Partial \subseteq Partial' /\ Signature \subseteq Signature'
    BY TypesGrow DEF IInv, TypeOK
  <2>1. counter' \in 1..(MaxTokens + 1)
    BY <2>0 DEF IInv, TypeOK
  <2>2. entry' \in [Tokens' -> [group : Groups, tweaks : 0..MaxTweaks, owner : Caches]]
    <3>1. cache[c] \in Tokens /\ entry[cache[c]].tweaks \in 0..MaxTweaks
      BY Fields DEF IInv, TypeOK
    <3>2. entry[cache[c]].tweaks + 1 \in 0..MaxTweaks
      BY <3>1
    <3>3. /\ entry' = [entry EXCEPT ![cache[c]].tweaks = entry[cache[c]].tweaks + 1] /\ Tokens' = Tokens
          /\ entry \in [Tokens -> [group : Groups, tweaks : 0..MaxTweaks, owner : Caches]]
      BY DEF IInv, TypeOK
    <3> HIDE DEF Tokens
    <3> QED
      BY <3>1, <3>2, <3>3
  <2>3. live' \subseteq Tokens' /\ cache' \in [Caches -> {0} \cup Tokens']
    BY <2>0 DEF IInv, TypeOK
  <2>4. nonces' \in 0..MaxNonces /\ secnonce' \in [Signers -> 0..nonces'] /\ pubnonce' \in [Signers -> 0..nonces']
    BY <2>0 DEF IInv, TypeOK
  <2>5. begun' \subseteq Session'
    BY <2>0 DEF IInv, TypeOK
  <2>6. session' \in [Sessions -> begun' \cup {None}]
    BY <2>0 DEF IInv, TypeOK
  <2>7. signing' \in [Signers -> InFlight' \cup {None}]
    BY <2>0 DEF IInv, TypeOK
  <2>8. psigs' \subseteq Partial'
    BY <2>0 DEF IInv, TypeOK
  <2>9. \A p \in psigs' : p.signer \in entry'[p.tok].group
    BY <2>0 DEF IInv, TypeOK
  <2>10. aggregating' \in [Sessions -> {None, "hit", "miss"}]
    BY <2>0 DEF IInv, TypeOK
  <2>11. \A u \in Sessions : aggregating'[u] # None => session'[u] # None
    BY <2>0 DEF IInv, TypeOK
  <2>12. ended' \subseteq 1..MaxSessions /\ misused' \subseteq Tokens'
    BY <2>0 DEF IInv, TypeOK
  <2>13. sigs' \subseteq Signature'
    BY <2>0 DEF IInv, TypeOK
  <2> QED
    BY <2>1, <2>2, <2>3, <2>4, <2>5, <2>6, <2>7, <2>8, <2>9, <2>10, <2>11, <2>12, <2>13 DEF TypeOK
<1>2. NonceOnce'
  BY DEF IInv, TypeOK, NonceOnce, NoncePlace
<1>3. OwnEntry'
  BY DEF IInv, TypeOK, OwnEntry
<1>4. AggregateVerifies'
  BY DEF IInv, TypeOK, AggregateVerifies
<1>5. NoncePlace'
  BY DEF IInv, TypeOK, NonceOnce, NoncePlace
<1>6. SessionKept'
  BY DEF IInv, TypeOK, SessionKept
<1>7. OneSession'
  BY DEF IInv, TypeOK, OneSession
<1> QED
  BY <1>1, <1>2, <1>3, <1>4, <1>5, <1>6, <1>7 DEF IInv

(* IInv is kept by releasing a cache.                                       *)
LEMMA CacheClearStep ==
  ASSUME IInv, NEW c \in Caches, CacheClear(c)
  PROVE  IInv'
<1> USE DEF CacheClear, KaGet
<1>1. TypeOK'
  <2>0. /\ Tokens \subseteq Tokens'
        /\ Session \subseteq Session' /\ InFlight \subseteq InFlight'
        /\ Partial \subseteq Partial' /\ Signature \subseteq Signature'
    BY TypesGrow DEF IInv, TypeOK
  <2>1. counter' \in 1..(MaxTokens + 1)
    BY <2>0 DEF IInv, TypeOK
  <2>2. entry' \in [Tokens' -> [group : Groups, tweaks : 0..MaxTweaks, owner : Caches]]
    BY <2>0 DEF IInv, TypeOK
  <2>3. live' \subseteq Tokens' /\ cache' \in [Caches -> {0} \cup Tokens']
    BY <2>0 DEF IInv, TypeOK
  <2>4. nonces' \in 0..MaxNonces /\ secnonce' \in [Signers -> 0..nonces'] /\ pubnonce' \in [Signers -> 0..nonces']
    BY <2>0 DEF IInv, TypeOK
  <2>5. begun' \subseteq Session'
    BY <2>0 DEF IInv, TypeOK
  <2>6. session' \in [Sessions -> begun' \cup {None}]
    BY <2>0 DEF IInv, TypeOK
  <2>7. signing' \in [Signers -> InFlight' \cup {None}]
    BY <2>0 DEF IInv, TypeOK
  <2>8. psigs' \subseteq Partial'
    BY <2>0 DEF IInv, TypeOK
  <2>9. \A p \in psigs' : p.signer \in entry'[p.tok].group
    BY <2>0 DEF IInv, TypeOK
  <2>10. aggregating' \in [Sessions -> {None, "hit", "miss"}]
    BY <2>0 DEF IInv, TypeOK
  <2>11. \A u \in Sessions : aggregating'[u] # None => session'[u] # None
    BY <2>0 DEF IInv, TypeOK
  <2>12. ended' \subseteq 1..MaxSessions /\ misused' \subseteq Tokens'
    <3>1. cache[c] \in Tokens
      BY Fields DEF IInv, TypeOK
    <3> QED
      BY <2>0, <3>1 DEF IInv, TypeOK
  <2>13. sigs' \subseteq Signature'
    BY <2>0 DEF IInv, TypeOK
  <2> QED
    BY <2>1, <2>2, <2>3, <2>4, <2>5, <2>6, <2>7, <2>8, <2>9, <2>10, <2>11, <2>12, <2>13 DEF TypeOK
<1>2. NonceOnce'
  BY DEF IInv, TypeOK, NonceOnce, NoncePlace
<1>3. OwnEntry'
  BY DEF IInv, TypeOK, OwnEntry
<1>4. AggregateVerifies'
  BY DEF IInv, TypeOK, AggregateVerifies
<1>5. NoncePlace'
  BY DEF IInv, TypeOK, NonceOnce, NoncePlace
<1>6. SessionKept'
  BY DEF IInv, TypeOK, SessionKept
<1>7. OneSession'
  BY DEF IInv, TypeOK, OneSession
<1> QED
  BY <1>1, <1>2, <1>3, <1>4, <1>5, <1>6, <1>7 DEF IInv

(* IInv is kept by a new nonce.                                             *)
LEMMA NonceGenStep ==
  ASSUME IInv, NEW i \in Signers, NonceGen(i)
  PROVE  IInv'
<1> USE DEF NonceGen
<1>p1. /\ nonces + 1 \in Nat /\ \A n \in 0..nonces : n # nonces + 1
       /\ \A p \in psigs : p.nonce \in 1..nonces /\ p.nonce # nonces + 1
       /\ \A j \in Signers : signing[j] # None => signing[j].nonce # nonces + 1
  BY Fields DEF IInv
<1>p2. /\ secnonce'[i] = nonces + 1
       /\ \A j \in Signers : secnonce[j] # nonces + 1 /\ (j # i => secnonce'[j] = secnonce[j])
  BY <1>p1 DEF IInv, TypeOK
<1>1. TypeOK'
  <2>0. /\ Tokens \subseteq Tokens'
        /\ Session \subseteq Session' /\ InFlight \subseteq InFlight'
        /\ Partial \subseteq Partial' /\ Signature \subseteq Signature'
    BY TypesGrow DEF IInv, TypeOK
  <2>1. counter' \in 1..(MaxTokens + 1)
    BY <2>0 DEF IInv, TypeOK
  <2>2. entry' \in [Tokens' -> [group : Groups, tweaks : 0..MaxTweaks, owner : Caches]]
    BY <2>0 DEF IInv, TypeOK
  <2>3. live' \subseteq Tokens' /\ cache' \in [Caches -> {0} \cup Tokens']
    BY <2>0 DEF IInv, TypeOK
  <2>4. nonces' \in 0..MaxNonces /\ secnonce' \in [Signers -> 0..nonces'] /\ pubnonce' \in [Signers -> 0..nonces']
    BY <2>0 DEF IInv, TypeOK
  <2>5. begun' \subseteq Session'
    BY <2>0 DEF IInv, TypeOK
  <2>6. session' \in [Sessions -> begun' \cup {None}]
    BY <2>0 DEF IInv, TypeOK
  <2>7. signing' \in [Signers -> InFlight' \cup {None}]
    BY <2>0 DEF IInv, TypeOK
  <2>8. psigs' \subseteq Partial'
    BY <2>0 DEF IInv, TypeOK
  <2>9. \A p \in psigs' : p.signer \in entry'[p.tok].group
    BY <2>0 DEF IInv, TypeOK
  <2>10. aggregating' \in [Sessions -> {None, "hit", "miss"}]
    BY <2>0 DEF IInv, TypeOK
  <2>11. \A u \in Sessions : aggregating'[u] # None => session'[u] # None
    BY <2>0 DEF IInv, TypeOK
  <2>12. ended' \subseteq 1..MaxSessions /\ misused' \subseteq Tokens'
    BY <2>0 DEF IInv, TypeOK
  <2>13. sigs' \subseteq Signature'
    BY <2>0 DEF IInv, TypeOK
  <2> QED
    BY <2>1, <2>2, <2>3, <2>4, <2>5, <2>6, <2>7, <2>8, <2>9, <2>10, <2>11, <2>12, <2>13 DEF TypeOK
<1>2. NonceOnce'
  BY <1>p1, <1>p2 DEF IInv, NonceOnce
<1>3. OwnEntry'
  BY DEF IInv, TypeOK, OwnEntry
<1>4. AggregateVerifies'
  BY DEF IInv, TypeOK, AggregateVerifies
<1>5. NoncePlace'
  <2>1. \A j, k \in Signers : j # k /\ secnonce'[j] = secnonce'[k] => secnonce'[j] = 0
    BY <1>p1, <1>p2 DEF IInv, NoncePlace
  <2>2. ASSUME NEW j \in Signers, NEW k \in Signers, signing[j] # None PROVE secnonce'[k] # signing[j].nonce
    <3>1. CASE k = i
      <4>1. signing[j].nonce # nonces + 1
        BY <2>2, <1>p1
      <4>2. secnonce'[k] = nonces + 1
        BY <3>1, <1>p2
      <4> QED
        BY <4>1, <4>2
    <3>2. CASE k # i
      BY <3>2, <2>2, <1>p2 DEF IInv, NoncePlace
    <3> QED
      BY <3>1, <3>2
  <2> QED
    BY <2>1, <2>2 DEF IInv, NoncePlace
<1>6. SessionKept'
  BY DEF IInv, TypeOK, SessionKept
<1>7. OneSession'
  BY DEF IInv, TypeOK, OneSession
<1> QED
  BY <1>1, <1>2, <1>3, <1>4, <1>5, <1>6, <1>7 DEF IInv

(* IInv is kept by a new session.                                           *)
LEMMA NonceProcessStep ==
  ASSUME IInv, NEW s \in Sessions, NEW c \in Caches, NonceProcess(s, c)
  PROVE  IInv'
<1> USE DEF NonceProcess, KaGet
<1>p0. Session \subseteq Session'
  <2>1. counter' = counter /\ nonces' = nonces
    OBVIOUS
  <2> QED
    BY <2>1 DEF Session
<1>pg. /\ TypeOK /\ begun \subseteq begun'
       /\ counter' \in Nat /\ counter <= counter' /\ nonces' \in Nat /\ nonces <= nonces'
  BY Fields DEF IInv
<1> DEFINE e == entry[cache[c]]
            new == [id |-> Cardinality(begun) + 1, tok |-> cache[c], tweaks |-> e.tweaks,
                    nonces |-> [i \in e.group |-> pubnonce[i]]]
<1>p1. cache[c] \in Tokens /\ e.group \in Groups /\ e.tweaks \in 0..MaxTweaks
  BY Fields DEF IInv, TypeOK
<1>p2. Cardinality(begun) \in Nat
  BY FS_CardinalityType DEF IInv, OneSession
<1>p3. \A i \in e.group : pubnonce[i] \in 1..nonces
  BY <1>p1, Fields DEF IInv, TypeOK
<1>p4. new.nonces \in [e.group -> 1..nonces]
  BY <1>p3
<1>p5. new \in Session
  BY <1>p1, <1>p2, <1>p4 DEF Session
<1>p6. /\ begun' = begun \cup {new} /\ session' = [session EXCEPT ![s] = new]
       /\ misused' = IF \E b \in begun : b.tok = new.tok THEN misused \cup {new.tok} ELSE misused
  OBVIOUS
<1>p7. new.tok = cache[c] /\ new.tweaks = entry[cache[c]].tweaks
  OBVIOUS
<1> HIDE DEF new, e
<1>1. TypeOK'
  <2>0. /\ Tokens \subseteq Tokens'
        /\ Session \subseteq Session' /\ InFlight \subseteq InFlight'
        /\ Partial \subseteq Partial' /\ Signature \subseteq Signature'
    BY <1>pg, TypesGrow
  <2>1. counter' \in 1..(MaxTokens + 1)
    BY <2>0 DEF IInv, TypeOK
  <2>2. entry' \in [Tokens' -> [group : Groups, tweaks : 0..MaxTweaks, owner : Caches]]
    BY <2>0 DEF IInv, TypeOK
  <2>3. live' \subseteq Tokens' /\ cache' \in [Caches -> {0} \cup Tokens']
    BY <2>0 DEF IInv, TypeOK
  <2>4. nonces' \in 0..MaxNonces /\ secnonce' \in [Signers -> 0..nonces'] /\ pubnonce' \in [Signers -> 0..nonces']
    BY <2>0 DEF IInv, TypeOK
  <2>5. begun' \subseteq Session'
    <3>1. begun \subseteq Session
      BY DEF IInv, TypeOK
    <3>2. begun' = begun \cup {new}
      BY <1>p6
    <3> QED
      BY <3>1, <3>2, <1>p0, <1>p5
  <2>6. session' \in [Sessions -> begun' \cup {None}]
    BY <2>0, <1>p6 DEF IInv, TypeOK
  <2>7. signing' \in [Signers -> InFlight' \cup {None}]
    BY <2>0 DEF IInv, TypeOK
  <2>8. psigs' \subseteq Partial'
    BY <2>0 DEF IInv, TypeOK
  <2>9. \A p \in psigs' : p.signer \in entry'[p.tok].group
    BY <2>0 DEF IInv, TypeOK
  <2>10. aggregating' \in [Sessions -> {None, "hit", "miss"}]
    BY <2>0 DEF IInv, TypeOK
  <2>11. \A u \in Sessions : aggregating'[u] # None => session'[u] # None
    BY <2>0 DEF IInv, TypeOK
  <2>12. ended' \subseteq 1..MaxSessions /\ misused' \subseteq Tokens'
    BY <2>0, <1>p1, <1>p6, <1>p7 DEF IInv, TypeOK
  <2>13. sigs' \subseteq Signature'
    BY <2>0 DEF IInv, TypeOK
  <2> QED
    BY <2>1, <2>2, <2>3, <2>4, <2>5, <2>6, <2>7, <2>8, <2>9, <2>10, <2>11, <2>12, <2>13 DEF TypeOK
<1>2. NonceOnce'
  BY DEF IInv, TypeOK, NonceOnce, NoncePlace
<1>3. OwnEntry'
  BY DEF IInv, TypeOK, OwnEntry
<1>4. AggregateVerifies'
  BY DEF IInv, TypeOK, AggregateVerifies
<1>5. NoncePlace'
  BY DEF IInv, TypeOK, NonceOnce, NoncePlace
<1>6. SessionKept'
  <2> SUFFICES ASSUME NEW b \in begun', b.tok \notin misused'
               PROVE  /\ entry[b.tok].tweaks = b.tweaks
                      /\ b.id \notin ended => b.tok \in live
                      /\ \A t \in Sessions : session'[t] = b /\ aggregating[t] = "miss" => FALSE
    BY DEF SessionKept
  <2>1. CASE b = new
    <3>1. \A t \in Sessions : session'[t] = b => t = s \/ session[t] = b
      BY <1>p6 DEF IInv, TypeOK
    <3>2. ASSUME NEW t \in Sessions, session[t] = b PROVE aggregating[t] = None
      <4>1. ASSUME aggregating[t] # None PROVE b \in begun
        BY <3>2, <4>1, Fields DEF IInv
      <4> QED
        BY <4>1, <2>1, <1>p6, <1>p7
    <3> QED
      BY <3>1, <3>2, <2>1, <1>p7
  <2>2. CASE b # new
    <3>1. b \in begun /\ b.tok \notin misused
      BY <2>2, <1>p6
    <3>2. \A t \in Sessions : session'[t] = b => session[t] = b
      BY <2>2, <1>p6 DEF IInv, TypeOK
    <3> QED
      BY <3>1, <3>2 DEF IInv, SessionKept
  <2> QED
    BY <2>1, <2>2
<1>7. OneSession'
  <2>1. IsFiniteSet(begun')
    BY <1>p6, FS_AddElement DEF IInv, OneSession
  <2>2. ASSUME NEW b \in begun', NEW x \in begun', b.tok = x.tok, b.tok \notin misused' PROVE b = x
    BY <2>2, <1>p6 DEF IInv, OneSession
  <2> QED
    BY <2>1, <2>2 DEF OneSession
<1> QED
  BY <1>1, <1>2, <1>3, <1>4, <1>5, <1>6, <1>7 DEF IInv

(* IInv is kept by the first half of partial_sign().                        *)
LEMMA SignBeginStep ==
  ASSUME IInv, NEW i \in Signers, NEW c \in Caches, NEW s \in Sessions, SignBegin(i, c, s)
  PROVE  IInv'
<1> USE DEF SignBegin, KaGet
<1> DEFINE g == [tok |-> cache[c], nonce |-> secnonce[i], sess |-> session[s]]
<1>p1. /\ signing' = [signing EXCEPT ![i] = g]
       /\ g.nonce = secnonce[i] /\ g.nonce # 0 /\ signing[i] = None
       /\ secnonce' = [secnonce EXCEPT ![i] = 0]
  OBVIOUS
<1>p2. g \in InFlight
  BY Fields DEF IInv, TypeOK, InFlight
<1> HIDE DEF g
<1>p3. /\ signing'[i] = g /\ secnonce'[i] = 0
       /\ \A j \in Signers : j # i => signing'[j] = signing[j] /\ secnonce'[j] = secnonce[j]
  BY <1>p1 DEF IInv, TypeOK
<1>p4. /\ \A p \in psigs : p.nonce # 0
       /\ \A j \in Signers : signing[j] # None => signing[j].nonce # 0
  BY Fields DEF IInv
<1>1. TypeOK'
  <2>0. /\ Tokens \subseteq Tokens'
        /\ Session \subseteq Session' /\ InFlight \subseteq InFlight'
        /\ Partial \subseteq Partial' /\ Signature \subseteq Signature'
    BY TypesGrow DEF IInv, TypeOK
  <2>1. counter' \in 1..(MaxTokens + 1)
    BY <2>0 DEF IInv, TypeOK
  <2>2. entry' \in [Tokens' -> [group : Groups, tweaks : 0..MaxTweaks, owner : Caches]]
    BY <2>0 DEF IInv, TypeOK
  <2>3. live' \subseteq Tokens' /\ cache' \in [Caches -> {0} \cup Tokens']
    BY <2>0 DEF IInv, TypeOK
  <2>4. nonces' \in 0..MaxNonces /\ secnonce' \in [Signers -> 0..nonces'] /\ pubnonce' \in [Signers -> 0..nonces']
    BY <2>0 DEF IInv, TypeOK
  <2>5. begun' \subseteq Session'
    BY <2>0 DEF IInv, TypeOK
  <2>6. session' \in [Sessions -> begun' \cup {None}]
    BY <2>0 DEF IInv, TypeOK
  <2>7. signing' \in [Signers -> InFlight' \cup {None}]
    BY <2>0, <1>p1, <1>p2 DEF IInv, TypeOK
  <2>8. psigs' \subseteq Partial'
    BY <2>0 DEF IInv, TypeOK
  <2>9. \A p \in psigs' : p.signer \in entry'[p.tok].group
    BY <2>0 DEF IInv, TypeOK
  <2>10. aggregating' \in [Sessions -> {None, "hit", "miss"}]
    BY <2>0 DEF IInv, TypeOK
  <2>11. \A u \in Sessions : aggregating'[u] # None => session'[u] # None
    BY <2>0 DEF IInv, TypeOK
  <2>12. ended' \subseteq 1..MaxSessions /\ misused' \subseteq Tokens'
    BY <2>0 DEF IInv, TypeOK
  <2>13. sigs' \subseteq Signature'
    BY <2>0 DEF IInv, TypeOK
  <2> QED
    BY <2>1, <2>2, <2>3, <2>4, <2>5, <2>6, <2>7, <2>8, <2>9, <2>10, <2>11, <2>12, <2>13 DEF TypeOK
<1>2. NonceOnce'
  BY <1>p3, <1>p4 DEF IInv, NonceOnce
<1>3. OwnEntry'
  BY DEF IInv, TypeOK, OwnEntry
<1>4. AggregateVerifies'
  BY DEF IInv, TypeOK, AggregateVerifies
<1>5. NoncePlace'
  <2>1. \A j, k \in Signers : j # k /\ secnonce'[j] = secnonce'[k] => secnonce'[j] = 0
    BY <1>p3 DEF IInv, NoncePlace
  <2>2. ASSUME NEW j \in Signers, NEW k \in Signers, signing'[j] # None PROVE secnonce'[k] # signing'[j].nonce
    BY <2>2, <1>p1, <1>p3, <1>p4 DEF IInv, NoncePlace
  <2>3. ASSUME NEW j \in Signers, NEW k \in Signers, signing'[j] # None, signing'[k] # None,
               signing'[j].nonce = signing'[k].nonce
        PROVE  j = k
    BY <2>3, <1>p1, <1>p3 DEF IInv, NoncePlace
  <2>4. ASSUME NEW j \in Signers, NEW p \in psigs, signing'[j] # None PROVE p.nonce # signing'[j].nonce
    BY <2>4, <1>p1, <1>p3 DEF IInv, NonceOnce, NoncePlace
  <2> QED
    BY <2>1, <2>2, <2>3, <2>4 DEF NoncePlace
<1>6. SessionKept'
  BY DEF IInv, TypeOK, SessionKept
<1>7. OneSession'
  BY DEF IInv, TypeOK, OneSession
<1> QED
  BY <1>1, <1>2, <1>3, <1>4, <1>5, <1>6, <1>7 DEF IInv

(* IInv is kept by the second half of partial_sign().                       *)
LEMMA SignEndStep ==
  ASSUME IInv, NEW i \in Signers, NEW key \in {i, None}, SignEnd(i, key)
  PROVE  IInv'
<1> USE DEF SignEnd
<1>1. TypeOK'
  <2>0. /\ Tokens \subseteq Tokens'
        /\ Session \subseteq Session' /\ InFlight \subseteq InFlight'
        /\ Partial \subseteq Partial' /\ Signature \subseteq Signature'
    BY TypesGrow DEF IInv, TypeOK
  <2>1. counter' \in 1..(MaxTokens + 1)
    BY <2>0 DEF IInv, TypeOK
  <2>2. entry' \in [Tokens' -> [group : Groups, tweaks : 0..MaxTweaks, owner : Caches]]
    BY <2>0 DEF IInv, TypeOK
  <2>3. live' \subseteq Tokens' /\ cache' \in [Caches -> {0} \cup Tokens']
    BY <2>0 DEF IInv, TypeOK
  <2>4. nonces' \in 0..MaxNonces /\ secnonce' \in [Signers -> 0..nonces'] /\ pubnonce' \in [Signers -> 0..nonces']
    BY <2>0 DEF IInv, TypeOK
  <2>5. begun' \subseteq Session'
    BY <2>0 DEF IInv, TypeOK
  <2>6. session' \in [Sessions -> begun' \cup {None}]
    BY <2>0 DEF IInv, TypeOK
  <2>7. signing' \in [Signers -> InFlight' \cup {None}]
    BY <2>0 DEF IInv, TypeOK
  <2>8. psigs' \subseteq Partial'
    <3> DEFINE new == [signer |-> key, nonce |-> signing[i].nonce, sess |-> signing[i].sess,
                      tok |-> signing[i].tok, tweaks |-> entry[signing[i].tok].tweaks]
    <3>1. /\ signing[i].tok \in Tokens /\ signing[i].nonce \in 1..nonces /\ signing[i].sess \in begun
          /\ entry[signing[i].tok].tweaks \in 0..MaxTweaks
          /\ entry[signing[i].tok].group \subseteq Signers
      BY Fields DEF IInv
    <3>2. key \in entry[signing[i].tok].group => new \in Partial
      BY <3>1 DEF Partial
    <3>3. psigs' = IF key \in entry[signing[i].tok].group THEN psigs \cup {new} ELSE psigs
      OBVIOUS
    <3> HIDE DEF new
    <3> QED
      BY <3>2, <3>3, <2>0 DEF IInv, TypeOK
  <2>9. \A p \in psigs' : p.signer \in entry'[p.tok].group
    BY <2>0 DEF IInv, TypeOK
  <2>10. aggregating' \in [Sessions -> {None, "hit", "miss"}]
    BY <2>0 DEF IInv, TypeOK
  <2>11. \A u \in Sessions : aggregating'[u] # None => session'[u] # None
    BY <2>0 DEF IInv, TypeOK
  <2>12. ended' \subseteq 1..MaxSessions /\ misused' \subseteq Tokens'
    BY <2>0 DEF IInv, TypeOK
  <2>13. sigs' \subseteq Signature'
    BY <2>0 DEF IInv, TypeOK
  <2> QED
    BY <2>1, <2>2, <2>3, <2>4, <2>5, <2>6, <2>7, <2>8, <2>9, <2>10, <2>11, <2>12, <2>13 DEF TypeOK
<1>2. NonceOnce'
  BY DEF IInv, TypeOK, NonceOnce, NoncePlace
<1>3. OwnEntry'
  BY DEF IInv, TypeOK, OwnEntry
<1>4. AggregateVerifies'
  BY DEF IInv, TypeOK, AggregateVerifies
<1>5. NoncePlace'
  BY DEF IInv, TypeOK, NonceOnce, NoncePlace
<1>6. SessionKept'
  BY DEF IInv, TypeOK, SessionKept
<1>7. OneSession'
  BY DEF IInv, TypeOK, OneSession
<1> QED
  BY <1>1, <1>2, <1>3, <1>4, <1>5, <1>6, <1>7 DEF IInv

(* IInv is kept by the lookup of partial_sig_agg().                         *)
LEMMA AggLookupStep ==
  ASSUME IInv, NEW s \in Sessions, AggLookup(s)
  PROVE  IInv'
<1> USE DEF AggLookup
<1>1. TypeOK'
  <2>0. /\ Tokens \subseteq Tokens'
        /\ Session \subseteq Session' /\ InFlight \subseteq InFlight'
        /\ Partial \subseteq Partial' /\ Signature \subseteq Signature'
    BY TypesGrow DEF IInv, TypeOK
  <2>1. counter' \in 1..(MaxTokens + 1)
    BY <2>0 DEF IInv, TypeOK
  <2>2. entry' \in [Tokens' -> [group : Groups, tweaks : 0..MaxTweaks, owner : Caches]]
    BY <2>0 DEF IInv, TypeOK
  <2>3. live' \subseteq Tokens' /\ cache' \in [Caches -> {0} \cup Tokens']
    BY <2>0 DEF IInv, TypeOK
  <2>4. nonces' \in 0..MaxNonces /\ secnonce' \in [Signers -> 0..nonces'] /\ pubnonce' \in [Signers -> 0..nonces']
    BY <2>0 DEF IInv, TypeOK
  <2>5. begun' \subseteq Session'
    BY <2>0 DEF IInv, TypeOK
  <2>6. session' \in [Sessions -> begun' \cup {None}]
    BY <2>0 DEF IInv, TypeOK
  <2>7. signing' \in [Signers -> InFlight' \cup {None}]
    BY <2>0 DEF IInv, TypeOK
  <2>8. psigs' \subseteq Partial'
    BY <2>0 DEF IInv, TypeOK
  <2>9. \A p \in psigs' : p.signer \in entry'[p.tok].group
    BY <2>0 DEF IInv, TypeOK
  <2>10. aggregating' \in [Sessions -> {None, "hit", "miss"}]
    BY <2>0 DEF IInv, TypeOK
  <2>11. \A u \in Sessions : aggregating'[u] # None => session'[u] # None
    BY <2>0 DEF IInv, TypeOK
  <2>12. ended' \subseteq 1..MaxSessions /\ misused' \subseteq Tokens'
    <3>1. session[s].tok \in Tokens
      BY Fields DEF IInv, TypeOK
    <3> QED
      BY <2>0, <3>1 DEF IInv, TypeOK
  <2>13. sigs' \subseteq Signature'
    BY <2>0 DEF IInv, TypeOK
  <2> QED
    BY <2>1, <2>2, <2>3, <2>4, <2>5, <2>6, <2>7, <2>8, <2>9, <2>10, <2>11, <2>12, <2>13 DEF TypeOK
<1>2. NonceOnce'
  BY DEF IInv, TypeOK, NonceOnce, NoncePlace
<1>3. OwnEntry'
  BY DEF IInv, TypeOK, OwnEntry
<1>4. AggregateVerifies'
  BY DEF IInv, TypeOK, AggregateVerifies
<1>5. NoncePlace'
  BY DEF IInv, TypeOK, NonceOnce, NoncePlace
<1>6. SessionKept'
  BY DEF IInv, TypeOK, SessionKept
<1>7. OneSession'
  BY DEF IInv, TypeOK, OneSession
<1> QED
  BY <1>1, <1>2, <1>3, <1>4, <1>5, <1>6, <1>7 DEF IInv

(* IInv is kept by a refused partial signature.                             *)
LEMMA AggRejectStep ==
  ASSUME IInv, NEW s \in Sessions, AggReject(s)
  PROVE  IInv'
<1> USE DEF AggReject
<1>1. TypeOK'
  <2>0. /\ Tokens \subseteq Tokens'
        /\ Session \subseteq Session' /\ InFlight \subseteq InFlight'
        /\ Partial \subseteq Partial' /\ Signature \subseteq Signature'
    BY TypesGrow DEF IInv, TypeOK
  <2>1. counter' \in 1..(MaxTokens + 1)
    BY <2>0 DEF IInv, TypeOK
  <2>2. entry' \in [Tokens' -> [group : Groups, tweaks : 0..MaxTweaks, owner : Caches]]
    BY <2>0 DEF IInv, TypeOK
  <2>3. live' \subseteq Tokens' /\ cache' \in [Caches -> {0} \cup Tokens']
    BY <2>0 DEF IInv, TypeOK
  <2>4. nonces' \in 0..MaxNonces /\ secnonce' \in [Signers -> 0..nonces'] /\ pubnonce' \in [Signers -> 0..nonces']
    BY <2>0 DEF IInv, TypeOK
  <2>5. begun' \subseteq Session'
    BY <2>0 DEF IInv, TypeOK
  <2>6. session' \in [Sessions -> begun' \cup {None}]
    BY <2>0 DEF IInv, TypeOK
  <2>7. signing' \in [Signers -> InFlight' \cup {None}]
    BY <2>0 DEF IInv, TypeOK
  <2>8. psigs' \subseteq Partial'
    BY <2>0 DEF IInv, TypeOK
  <2>9. \A p \in psigs' : p.signer \in entry'[p.tok].group
    BY <2>0 DEF IInv, TypeOK
  <2>10. aggregating' \in [Sessions -> {None, "hit", "miss"}]
    BY <2>0 DEF IInv, TypeOK
  <2>11. \A u \in Sessions : aggregating'[u] # None => session'[u] # None
    BY <2>0 DEF IInv, TypeOK
  <2>12. ended' \subseteq 1..MaxSessions /\ misused' \subseteq Tokens'
    BY <2>0 DEF IInv, TypeOK
  <2>13. sigs' \subseteq Signature'
    BY <2>0 DEF IInv, TypeOK
  <2> QED
    BY <2>1, <2>2, <2>3, <2>4, <2>5, <2>6, <2>7, <2>8, <2>9, <2>10, <2>11, <2>12, <2>13 DEF TypeOK
<1>2. NonceOnce'
  BY DEF IInv, TypeOK, NonceOnce, NoncePlace
<1>3. OwnEntry'
  BY DEF IInv, TypeOK, OwnEntry
<1>4. AggregateVerifies'
  BY DEF IInv, TypeOK, AggregateVerifies
<1>5. NoncePlace'
  BY DEF IInv, TypeOK, NonceOnce, NoncePlace
<1>6. SessionKept'
  <2> SUFFICES ASSUME NEW b \in begun, b.tok \notin misused'
               PROVE  /\ entry'[b.tok].tweaks = b.tweaks
                      /\ b.id \notin ended' => b.tok \in live'
                      /\ \A t \in Sessions : session[t] = b /\ aggregating'[t] = "miss" => FALSE
    BY DEF SessionKept
  <2>1. /\ entry[b.tok].tweaks = b.tweaks
        /\ b.id \notin ended => b.tok \in live
        /\ \A t \in Sessions : session[t] = b /\ aggregating[t] = "miss" => FALSE
    BY DEF IInv, SessionKept
  <2>2. \A t \in Sessions : aggregating'[t] = "miss" => aggregating[t] = "miss"
    BY DEF IInv, TypeOK
  <2> QED
    BY <2>1, <2>2
<1>7. OneSession'
  BY DEF IInv, TypeOK, OneSession
<1> QED
  BY <1>1, <1>2, <1>3, <1>4, <1>5, <1>6, <1>7 DEF IInv

(* IInv is kept by the result of partial_sig_agg().                         *)
LEMMA AggEndStep ==
  ASSUME IInv, NEW s \in Sessions, NEW degenerate \in BOOLEAN,
         NEW given \in [DOMAIN session[s].nonces -> psigs], AggEnd(s, given, degenerate)
  PROVE  IInv'
<1> USE DEF AggEnd
<1>1. TypeOK'
  <2>0. /\ Tokens \subseteq Tokens'
        /\ Session \subseteq Session' /\ InFlight \subseteq InFlight'
        /\ Partial \subseteq Partial' /\ Signature \subseteq Signature'
    BY TypesGrow DEF IInv, TypeOK
  <2>1. counter' \in 1..(MaxTokens + 1)
    BY <2>0 DEF IInv, TypeOK
  <2>2. entry' \in [Tokens' -> [group : Groups, tweaks : 0..MaxTweaks, owner : Caches]]
    BY <2>0 DEF IInv, TypeOK
  <2>3. live' \subseteq Tokens' /\ cache' \in [Caches -> {0} \cup Tokens']
    BY <2>0 DEF IInv, TypeOK
  <2>4. nonces' \in 0..MaxNonces /\ secnonce' \in [Signers -> 0..nonces'] /\ pubnonce' \in [Signers -> 0..nonces']
    BY <2>0 DEF IInv, TypeOK
  <2>5. begun' \subseteq Session'
    BY <2>0 DEF IInv, TypeOK
  <2>6. session' \in [Sessions -> begun' \cup {None}]
    BY <2>0 DEF IInv, TypeOK
  <2>7. signing' \in [Signers -> InFlight' \cup {None}]
    BY <2>0 DEF IInv, TypeOK
  <2>8. psigs' \subseteq Partial'
    BY <2>0 DEF IInv, TypeOK
  <2>9. \A p \in psigs' : p.signer \in entry'[p.tok].group
    BY <2>0 DEF IInv, TypeOK
  <2>10. aggregating' \in [Sessions -> {None, "hit", "miss"}]
    BY <2>0 DEF IInv, TypeOK
  <2>11. \A u \in Sessions : aggregating'[u] # None => session'[u] # None
    BY <2>0 DEF IInv, TypeOK
  <2>12. ended' \subseteq 1..MaxSessions /\ misused' \subseteq Tokens'
    <3>1. session[s].id \in 1..MaxSessions
      BY Fields DEF IInv, TypeOK
    <3> QED
      BY <2>0, <3>1 DEF IInv, TypeOK
  <2>13. sigs' \subseteq Signature'
    <3>1. session[s] \in begun
      BY Fields DEF IInv
    <3>2. ASSUME NEW o \in sigs' PROVE o \in Signature'
      <4>1. CASE o \in sigs
        BY <4>1, <2>0 DEF IInv, TypeOK
      <4>2. CASE o \notin sigs
        <5> DEFINE v == \A i \in DOMAIN session[s].nonces : PartialSigVerify(given[i], session[s], session[s].tok)
                   w == /\ \A i \in DOMAIN session[s].nonces :
                             /\ given[i].sess = session[s] /\ given[i].nonce = session[s].nonces[i]
                             /\ given[i].tweaks = session[s].tweaks
                        /\ TweaksUsed(s) = session[s].tweaks
        <5>1. o = [sess |-> session[s], hit |-> aggregating[s] = "hit", verified |-> v,
                   orderly |-> session[s].tok \notin misused, valid |-> w]
          BY <4>2
        <5>2. v \in BOOLEAN /\ w \in BOOLEAN
          OBVIOUS
        <5> HIDE DEF v, w
        <5> QED
          BY <5>1, <5>2, <3>1, <2>0 DEF Signature
      <4> QED
        BY <4>1, <4>2
    <3> QED
      BY <3>2
  <2> QED
    BY <2>1, <2>2, <2>3, <2>4, <2>5, <2>6, <2>7, <2>8, <2>9, <2>10, <2>11, <2>12, <2>13 DEF TypeOK
<1>2. NonceOnce'
  BY DEF IInv, TypeOK, NonceOnce, NoncePlace
<1>3. OwnEntry'
  BY DEF IInv, TypeOK, OwnEntry
<1>4. AggregateVerifies'
  <2> DEFINE g == session[s]
             new == [sess |-> g, hit |-> aggregating[s] = "hit",
                     verified |-> \A i \in DOMAIN g.nonces : PartialSigVerify(given[i], g, g.tok),
                     orderly |-> g.tok \notin misused,
                     valid |-> /\ \A i \in DOMAIN g.nonces :
                                    /\ given[i].sess = g /\ given[i].nonce = g.nonces[i]
                                    /\ given[i].tweaks = g.tweaks
                               /\ TweaksUsed(s) = g.tweaks]
  <2>1. g \in begun
    BY Fields DEF IInv
  <2>2. ASSUME \A i \in DOMAIN g.nonces : PartialSigVerify(given[i], g, g.tok), g.tok \notin misused
        PROVE  /\ \A i \in DOMAIN g.nonces :
                    /\ given[i].sess = g /\ given[i].nonce = g.nonces[i]
                    /\ given[i].tweaks = g.tweaks
               /\ TweaksUsed(s) = g.tweaks
    <3>1. entry[g.tok].tweaks = g.tweaks /\ aggregating[s] # "miss"
      BY <2>1, <2>2 DEF IInv, SessionKept
    <3>2. \A i \in DOMAIN g.nonces : /\ given[i].sess = g /\ given[i].nonce = g.nonces[i]
                                    /\ given[i].tweaks = g.tweaks
      <4> TAKE i \in DOMAIN g.nonces
      <4>1. PartialSigVerify(given[i], g, g.tok)
        BY <2>2
      <4>2. given[i].signer = i
        OBVIOUS
      <4> QED
        BY <3>1, <4>1, <4>2 DEF PartialSigVerify
    <3>3. aggregating[s] = "hit"
      BY <3>1 DEF IInv, TypeOK
    <3> QED
      BY <3>1, <3>2, <3>3 DEF TweaksUsed
  <2>3. /\ new.verified = (\A i \in DOMAIN g.nonces : PartialSigVerify(given[i], g, g.tok))
        /\ new.orderly = (g.tok \notin misused)
        /\ new.valid = (/\ \A i \in DOMAIN g.nonces :
                               /\ given[i].sess = g /\ given[i].nonce = g.nonces[i]
                               /\ given[i].tweaks = g.tweaks
                        /\ TweaksUsed(s) = g.tweaks)
    OBVIOUS
  <2>4. new.verified /\ new.orderly => new.valid
    BY <2>2, <2>3
  <2>5. sigs' = IF degenerate THEN sigs ELSE sigs \cup {new}
    OBVIOUS
  <2> HIDE DEF new, g
  <2> QED
    BY <2>4, <2>5 DEF IInv, AggregateVerifies
<1>5. NoncePlace'
  BY DEF IInv, TypeOK, NonceOnce, NoncePlace
<1>6. SessionKept'
  <2> SUFFICES ASSUME NEW b \in begun, b.tok \notin misused'
               PROVE  /\ entry'[b.tok].tweaks = b.tweaks
                      /\ b.id \notin ended' => b.tok \in live'
                      /\ \A t \in Sessions : session[t] = b /\ aggregating'[t] = "miss" => FALSE
    BY DEF SessionKept
  <2>1. /\ entry[b.tok].tweaks = b.tweaks
        /\ b.id \notin ended => b.tok \in live
        /\ \A t \in Sessions : session[t] = b /\ aggregating[t] = "miss" => FALSE
    BY DEF IInv, SessionKept
  <2>2. \A t \in Sessions : aggregating'[t] = "miss" => aggregating[t] = "miss"
    BY DEF IInv, TypeOK
  <2>3. ASSUME b.id \notin ended' PROVE b.tok \in live'
    <3>1. session[s] \in begun /\ b # session[s]
      BY <2>3, Fields DEF IInv
    <3>2. b.tok # session[s].tok
      BY <3>1 DEF IInv, OneSession
    <3> QED
      BY <2>1, <2>3, <3>2
  <2> QED
    BY <2>1, <2>2, <2>3
<1>7. OneSession'
  BY DEF IInv, TypeOK, OneSession
<1> QED
  BY <1>1, <1>2, <1>3, <1>4, <1>5, <1>6, <1>7 DEF IInv

LEMMA NextStep == IInv /\ [Next]_vars => IInv'
<1> SUFFICES ASSUME IInv, [Next]_vars PROVE IInv'
  OBVIOUS
<1>1. CASE \E c \in Caches, group \in Groups : PubkeyAgg(c, group)
  BY <1>1, PubkeyAggStep
<1>2. CASE \E c \in Caches : TweakAdd(c) \/ CacheClear(c)
  BY <1>2, TweakAddStep, CacheClearStep
<1>3. CASE \E i \in Signers : NonceGen(i)
  BY <1>3, NonceGenStep
<1>4. CASE \E s \in Sessions, c \in Caches : NonceProcess(s, c)
  BY <1>4, NonceProcessStep
<1>5. CASE \E i \in Signers, c \in Caches, s \in Sessions : SignBegin(i, c, s)
  BY <1>5, SignBeginStep
<1>6. CASE \E i \in Signers : \E key \in {i, None} : SignEnd(i, key)
  BY <1>6, SignEndStep
<1>7. CASE \E s \in Sessions : AggLookup(s) \/ AggReject(s)
  BY <1>7, AggLookupStep, AggRejectStep
<1>8. CASE \E s \in Sessions : \E degenerate \in BOOLEAN :
             /\ aggregating[s] # None
             /\ \E given \in [DOMAIN session[s].nonces -> psigs] : AggEnd(s, given, degenerate)
  BY <1>8, AggEndStep
<1>9. CASE UNCHANGED vars
  BY <1>9, StutterStep
<1> QED
  BY <1>1, <1>2, <1>3, <1>4, <1>5, <1>6, <1>7, <1>8, <1>9 DEF Next

(* The strengthening holds in every state.                                 *)
THEOREM Invariance == Spec => []IInv
<1> QED
  BY InitInv, NextStep, PTL DEF Spec

(* Types, and no signature by a key outside its aggregation.               *)
THEOREM TypeCorrect == Spec => []TypeOK
<1>1. IInv => TypeOK
  BY DEF IInv
<1> QED
  BY <1>1, Invariance, PTL

(* partial_sign() never signs with a key outside the aggregation, or as    *)
(* another of its signers.                                                 *)
THEOREM SignersAreMembers == Spec => []MembersOnly
<1>1. IInv => MembersOnly
  BY DEF IInv, TypeOK, MembersOnly
<1> QED
  BY <1>1, Invariance, PTL

(* partial_sign() never uses a secret nonce a second time.                 *)
THEOREM NonceNeverReused == Spec => []NonceOnce
<1>1. IInv => NonceOnce
  BY DEF IInv
<1> QED
  BY <1>1, Invariance, PTL

(* A keyagg_cache never resolves to another struct's aggregation.          *)
THEOREM ResolvesToItsOwn == Spec => []OwnEntry
<1>1. IInv => OwnEntry
  BY DEF IInv
<1> QED
  BY <1>1, Invariance, PTL

(* Sessions are independent: an orderly session's aggregate of verified    *)
(* partial signatures is valid, whatever the other sessions do.            *)
THEOREM OrderlySessionsSucceed == Spec => []AggregateVerifies
<1>1. IInv => AggregateVerifies
  BY DEF IInv
<1> QED
  BY <1>1, Invariance, PTL

================================================================================
