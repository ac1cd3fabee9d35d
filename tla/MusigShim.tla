-------------------------------- MODULE MusigShim --------------------------------
(***************************************************************************)
(* The MuSig2 part of the libsecp256k1 shim                                *)
(* (compat/libsecp256k1_shim/src/shim_musig.cpp): the process-wide map     *)
(* g_ka from tokens to key aggregation entries, the opaque structs of the  *)
(* caller that hold tokens, and the calls of one signing session.          *)
(*                                                                         *)
(* Every call takes g_mu only to look its entry up, put it or remove it;   *)
(* partial_sign and partial_sig_agg go on with a shared_ptr snapshot, so   *)
(* they are two steps here.  Arithmetic is ideal: a partial signature is   *)
(* the record of what went into it, and module MusigTweak checks that      *)
(* signatures made from equal values of the accumulators verify.  What     *)
(* counts of the tweaks is how many the entry has taken.                   *)
(***************************************************************************)
EXTENDS Integers, FiniteSets, Functions

CONSTANTS Caches,        (* the caller's secp256k1_musig_keyagg_cache      *)
          Sessions,      (* the caller's secp256k1_musig_session           *)
          Signers,       (* signers, each with one secnonce struct         *)
          Groups,        (* the sets of signers that are aggregated        *)
          None,          (* nothing                                        *)
          MaxKaEntries,  (* kMaxKaEntries                                  *)
          MaxTweaks,     (* bound: tweaks of an entry                      *)
          MaxTokens,     (* bound: successful pubkey_agg calls             *)
          MaxNonces,     (* bound: nonce_gen calls                         *)
          MaxSessions    (* bound: nonce_process calls                     *)

ASSUME MusigShimAssumption ==
  /\ Groups \subseteq SUBSET Signers /\ None \notin Signers \cup {"hit", "miss"}
  /\ MaxKaEntries \in Nat \ {0} /\ MaxTweaks \in Nat /\ MaxTokens \in Nat
  /\ MaxNonces \in Nat /\ MaxSessions \in Nat

VARIABLES
  counter,      (* g_token_counter                                         *)
  entry,        (* entry[t]: the KAEntry put under token t, and its tweaks *)
  live,         (* the tokens g_ka maps                                    *)
  cache,        (* cache[c]: the token in the struct; 0 is none            *)
  nonces,       (* how many nonces were generated                          *)
  secnonce,     (* secnonce[i]: the nonce in the struct; 0 is zeroed       *)
  pubnonce,     (* pubnonce[i]: the public half of i's last nonce          *)
  session,      (* session[s]: what nonce_process wrote, or None           *)
  begun,        (* every session value ever written                        *)
  signing,      (* signing[i]: i's partial_sign between lookup and result  *)
  psigs,        (* every partial signature returned                        *)
  aggregating,  (* aggregating[s]: a partial_sig_agg after its lookup      *)
  ended,        (* ids of sessions a partial_sig_agg has released          *)
  sigs,         (* every 64-byte signature returned with 1                 *)
  misused       (* tokens used outside one session's order of calls        *)

vars == <<counter, entry, live, cache, nonces, secnonce, pubnonce, session, begun,
          signing, psigs, aggregating, ended, sigs, misused>>

registry == <<counter, entry, live, cache>>
nonceVars == <<nonces, secnonce, pubnonce>>
sessionVars == <<session, begun, misused>>
results == <<psigs, aggregating, ended, sigs>>

Tokens == 1..(counter - 1)

Init ==
  /\ counter = 1 /\ entry = <<>> /\ live = {}
  /\ cache = [c \in Caches |-> 0]
  /\ nonces = 0
  /\ secnonce = [i \in Signers |-> 0] /\ pubnonce = [i \in Signers |-> 0]
  /\ session = [s \in Sessions |-> None] /\ begun = {}
  /\ signing = [i \in Signers |-> None]
  /\ psigs = {} /\ sigs = {} /\ ended = {} /\ misused = {}
  /\ aggregating = [s \in Sessions |-> None]

-----------------------------------------------------------------------------
(* Key aggregation                                                         *)

(* Broken variant: the token is the number of entries.                     *)
PubkeyAggByCount(c, group) ==
  LET tok == Cardinality(live) + 1 IN
  /\ tok <= MaxTokens /\ Cardinality(live) < MaxKaEntries
  /\ counter' = IF tok >= counter THEN tok + 1 ELSE counter
  /\ entry' = [t \in Tokens \cup {tok} |->
                 IF t = tok THEN [group |-> group, tweaks |-> 0, owner |-> c] ELSE entry[t]]
  /\ live' = live \cup {tok}
  /\ cache' = [cache EXCEPT ![c] = tok]
  /\ UNCHANGED <<nonceVars, sessionVars, signing, results>>

(* A fresh token whatever the struct held; at the cap the call returns 0   *)
(* and the struct keeps the token it had.  The struct may be new, used, or *)
(* at the address of one that is gone.                                     *)
PubkeyAgg(c, group) ==
  /\ counter <= MaxTokens /\ Cardinality(live) < MaxKaEntries
  /\ counter' = counter + 1
  /\ entry' = [t \in Tokens \cup {counter} |->
                 IF t = counter THEN [group |-> group, tweaks |-> 0, owner |-> c] ELSE entry[t]]
  /\ live' = live \cup {counter}
  /\ cache' = [cache EXCEPT ![c] = counter]
  /\ UNCHANGED <<nonceVars, sessionVars, signing, results>>

(* ka_get(): the token of a struct that has one and is mapped.             *)
KaGet(c) == cache[c] \in live

(* pubkey_ec_tweak_add() and pubkey_xonly_tweak_add() change the shared    *)
(* entry in place.  A tweak that makes the key infinite changes nothing.   *)
TweakAdd(c) ==
  /\ KaGet(c) /\ entry[cache[c]].tweaks < MaxTweaks
  /\ entry' = [entry EXCEPT ![cache[c]].tweaks = @ + 1]
  /\ misused' = IF \E b \in begun : b.tok = cache[c] THEN misused \cup {cache[c]} ELSE misused
  /\ UNCHANGED <<counter, live, cache, nonceVars, session, begun, signing, results>>

(* keyagg_cache_clear(): the struct keeps its token.                       *)
CacheClear(c) ==
  /\ KaGet(c)
  /\ live' = live \ {cache[c]}
  /\ misused' = misused \cup {cache[c]}
  /\ UNCHANGED <<counter, entry, cache, nonceVars, session, begun, signing, results>>

-----------------------------------------------------------------------------
(* Nonces and sessions                                                     *)

(* nonce_gen(): the struct may still hold a nonce, which is lost.          *)
NonceGen(i) ==
  /\ signing[i] = None /\ nonces < MaxNonces
  /\ nonces' = nonces + 1
  /\ secnonce' = [secnonce EXCEPT ![i] = nonces + 1]
  /\ pubnonce' = [pubnonce EXCEPT ![i] = nonces + 1]
  /\ UNCHANGED <<registry, sessionVars, signing, results>>

(* nonce_process(), with the sum of the group's last public nonces.  The   *)
(* challenge is over the aggregate key as it is tweaked now, and the       *)
(* session takes the token of the cache along.                             *)
NonceProcess(s, c) ==
  /\ KaGet(c) /\ Cardinality(begun) < MaxSessions
  /\ aggregating[s] = None
  /\ LET e == entry[cache[c]]
         new == [id |-> Cardinality(begun) + 1, tok |-> cache[c], tweaks |-> e.tweaks,
                 nonces |-> [i \in e.group |-> pubnonce[i]]]
     IN  /\ \A i \in e.group : pubnonce[i] # 0
         /\ session' = [session EXCEPT ![s] = new]
         /\ begun' = begun \cup {new}
         /\ misused' = IF \E b \in begun : b.tok = new.tok THEN misused \cup {new.tok} ELSE misused
  /\ UNCHANGED <<registry, nonceVars, signing, results>>

-----------------------------------------------------------------------------
(* partial_sign()                                                          *)

(* Broken variant: the secret nonce is left in the struct.                 *)
SignBeginKeepsNonce(i, c, s) ==
  /\ signing[i] = None /\ session[s] # None
  /\ KaGet(c)
  /\ secnonce[i] # 0
  /\ signing' = [signing EXCEPT ![i] = [tok |-> cache[c], nonce |-> secnonce[i], sess |-> session[s]]]
  /\ UNCHANGED <<registry, nonceVars, sessionVars, results>>

(* Without an entry the call returns 0 and leaves the nonce alone; a nonce *)
(* that parses is zeroed before anything else can fail.                    *)
SignBegin(i, c, s) ==
  /\ signing[i] = None /\ session[s] # None
  /\ KaGet(c)
  /\ secnonce[i] # 0
  /\ secnonce' = [secnonce EXCEPT ![i] = 0]
  /\ signing' = [signing EXCEPT ![i] = [tok |-> cache[c], nonce |-> secnonce[i], sess |-> session[s]]]
  /\ UNCHANGED <<registry, nonces, pubnonce, sessionVars, results>>

(* Broken variant: a key that is not found signs as signer 0.              *)
SignEndAnyKey(i, key) ==
  /\ signing[i] # None
  /\ LET g == signing[i] IN
       psigs' = psigs \cup {[signer |-> key, nonce |-> g.nonce, sess |-> g.sess,
                             tok |-> g.tok, tweaks |-> entry[g.tok].tweaks]}
  /\ signing' = [signing EXCEPT ![i] = None]
  /\ UNCHANGED <<registry, nonceVars, sessionVars, aggregating, ended, sigs>>

(* find_index(): a key that does not parse or is not in the aggregation    *)
(* signs nothing, and the nonce is gone.  Otherwise the signature is made  *)
(* with the entry as it is now.                                            *)
SignEnd(i, key) ==
  /\ signing[i] # None
  /\ LET g == signing[i] IN
       psigs' = IF key \in entry[g.tok].group
                  THEN psigs \cup {[signer |-> key, nonce |-> g.nonce, sess |-> g.sess,
                                    tok |-> g.tok, tweaks |-> entry[g.tok].tweaks]}
                  ELSE psigs
  /\ signing' = [signing EXCEPT ![i] = None]
  /\ UNCHANGED <<registry, nonceVars, sessionVars, aggregating, ended, sigs>>

-----------------------------------------------------------------------------
(* partial_sig_agg()                                                       *)

(* partial_sig_verify() against the entry of a token: made for session g,  *)
(* from the nonce it counted, with the entry as it is now.                 *)
PartialSigVerify(p, g, tok) ==
  /\ p.sess = g /\ p.signer \in DOMAIN g.nonces /\ p.nonce = g.nonces[p.signer]
  /\ p.tok = tok /\ p.tweaks = entry[tok].tweaks

(* Broken variant: the lookup also takes the entry out.                    *)
AggLookupRemoves(s) ==
  /\ session[s] # None /\ aggregating[s] = None
  /\ \A i \in DOMAIN session[s].nonces : \E p \in psigs : p.signer = i
  /\ aggregating' = [aggregating EXCEPT ![s] = IF session[s].tok \in live THEN "hit" ELSE "miss"]
  /\ live' = live \ {session[s].tok}
  /\ misused' = IF session[s].id \in ended THEN misused \cup {session[s].tok} ELSE misused
  /\ UNCHANGED <<counter, entry, cache, nonceVars, session, begun, signing, psigs, ended, sigs>>

(* The entry is looked up for its tweaks only.  The caller has a partial   *)
(* signature of every signer, maybe of another session.                    *)
AggLookup(s) ==
  /\ session[s] # None /\ aggregating[s] = None
  /\ \A i \in DOMAIN session[s].nonces : \E p \in psigs : p.signer = i
  /\ aggregating' = [aggregating EXCEPT ![s] = IF session[s].tok \in live THEN "hit" ELSE "miss"]
  /\ misused' = IF session[s].id \in ended THEN misused \cup {session[s].tok} ELSE misused
  /\ UNCHANGED <<registry, nonceVars, session, begun, signing, psigs, ended, sigs>>

(* A partial signature that does not parse: 0, and the entry stays.        *)
AggReject(s) ==
  /\ aggregating[s] # None
  /\ aggregating' = [aggregating EXCEPT ![s] = None]
  /\ UNCHANGED <<registry, nonceVars, sessionVars, signing, psigs, ended, sigs>>

(* Without an entry the sum is completed as if nothing had been tweaked.   *)
TweaksUsed(s) == IF aggregating[s] = "hit" THEN entry[session[s].tok].tweaks ELSE 0

(* One partial signature of each signer.  The sum may be the degenerate    *)
(* zero, which returns 0 and releases the entry as well.  The signature is *)
(* valid under the key of the session if every term was made with the      *)
(* accumulators of its challenge.                                          *)
AggEnd(s, given, degenerate) ==
  LET g == session[s] IN
  /\ aggregating[s] # None
  /\ \A i \in DOMAIN g.nonces : given[i].signer = i
  /\ sigs' = IF degenerate THEN sigs
             ELSE sigs \cup {[sess |-> g, hit |-> aggregating[s] = "hit",
                              verified |-> \A i \in DOMAIN g.nonces : PartialSigVerify(given[i], g, g.tok),
                              orderly |-> g.tok \notin misused,
                              valid |-> /\ \A i \in DOMAIN g.nonces :
                                             /\ given[i].sess = g /\ given[i].nonce = g.nonces[i]
                                             /\ given[i].tweaks = g.tweaks
                                        /\ TweaksUsed(s) = g.tweaks]}
  /\ live' = live \ {g.tok}
  /\ ended' = ended \cup {g.id}
  /\ aggregating' = [aggregating EXCEPT ![s] = None]
  /\ UNCHANGED <<counter, entry, cache, nonceVars, sessionVars, signing, psigs>>

-----------------------------------------------------------------------------
Next ==
  \/ \E c \in Caches, group \in Groups : PubkeyAgg(c, group)
  \/ \E c \in Caches : TweakAdd(c)
  \/ \E c \in Caches : CacheClear(c)
  \/ \E i \in Signers : NonceGen(i)
  \/ \E s \in Sessions, c \in Caches : NonceProcess(s, c)
  \/ \E i \in Signers, c \in Caches, s \in Sessions : SignBegin(i, c, s)
  \/ \E i \in Signers : \E key \in {i, None} : SignEnd(i, key)
  \/ \E s \in Sessions : AggLookup(s)
  \/ \E s \in Sessions : AggReject(s)
  \/ \E s \in Sessions : \E degenerate \in BOOLEAN :
       /\ aggregating[s] # None
       /\ \E given \in [DOMAIN session[s].nonces -> psigs] : AggEnd(s, given, degenerate)

Spec == Init /\ [][Next]_vars

-----------------------------------------------------------------------------
Session == [id : 1..MaxSessions, tok : Tokens, tweaks : 0..MaxTweaks,
            nonces : UNION {[group -> 1..nonces] : group \in Groups}]

InFlight == [tok : Tokens, nonce : 1..nonces, sess : begun]

Partial == [signer : Signers, nonce : 1..nonces, sess : begun, tok : Tokens, tweaks : 0..MaxTweaks]

Signature == [sess : begun, hit : BOOLEAN, verified : BOOLEAN, orderly : BOOLEAN, valid : BOOLEAN]

(* Nobody has signed for an aggregation that its key is not in, whatever   *)
(* became of the struct meanwhile: find_index() fails closed.              *)
MembersOnly == \A p \in psigs : p.signer \in entry[p.tok].group

(* Every variable keeps its type.                                          *)
TypeOK ==
  /\ counter \in 1..(MaxTokens + 1)
  /\ entry \in [Tokens -> [group : Groups, tweaks : 0..MaxTweaks, owner : Caches]]
  /\ live \subseteq Tokens
  /\ cache \in [Caches -> {0} \cup Tokens]
  /\ nonces \in 0..MaxNonces
  /\ secnonce \in [Signers -> 0..nonces] /\ pubnonce \in [Signers -> 0..nonces]
  /\ begun \subseteq Session
  /\ session \in [Sessions -> begun \cup {None}]
  /\ signing \in [Signers -> InFlight \cup {None}]
  /\ psigs \subseteq Partial
  /\ \A p \in psigs : p.signer \in entry[p.tok].group
  /\ aggregating \in [Sessions -> {None, "hit", "miss"}]
  /\ \A s \in Sessions : aggregating[s] # None => session[s] # None
  /\ ended \subseteq 1..MaxSessions
  /\ sigs \subseteq Signature
  /\ misused \subseteq Tokens

(* A secret nonce goes into one partial signature at most, and into none   *)
(* once it is zeroed: not with another cache, another session or a tweak   *)
(* in between.                                                             *)
NonceOnce ==
  /\ \A p, q \in psigs : p.nonce = q.nonce => p = q
  /\ \A p \in psigs, i \in Signers : secnonce[i] # p.nonce

(* A struct only ever resolves to the entry its own last pubkey_agg made,  *)
(* whatever was removed and aggregated elsewhere in between (SHIM-010).    *)
OwnEntry == \A c \in Caches : cache[c] # 0 => entry[cache[c]].owner = c

(* A signature put together from partial signatures that verify is valid,  *)
(* if the token served one session that was neither tweaked, cleared nor   *)
(* released before: no other session's calls can spoil it.                 *)
AggregateVerifies == \A o \in sigs : o.verified /\ o.orderly => o.valid

-----------------------------------------------------------------------------
(* What the documentation says and the code does not do.                   *)

(* An entry persists until its cache is aggregated again, so a cache has   *)
(* one at most (the comment on the registry's lifetime).                   *)
EntryPerCache == \A t \in live : cache[entry[t].owner] = t

(* A session whose token is not mapped is a miss, which returns 0          *)
(* (SHIM_KNOWN_DIVERGENCES, secp256k1_musig_session).                      *)
MissReturnsZero == \A o \in sigs : o.hit

-----------------------------------------------------------------------------
(* The inductive invariant.                                                *)

(* A nonce that was generated is in one place: a struct, a call in flight  *)
(* or a partial signature.                                                 *)
NoncePlace ==
  /\ \A i, j \in Signers : i # j /\ secnonce[i] = secnonce[j] => secnonce[i] = 0
  /\ \A i, j \in Signers : signing[i] # None => secnonce[j] # signing[i].nonce
  /\ \A i, j \in Signers : signing[i] # None /\ signing[j] # None /\ signing[i].nonce = signing[j].nonce => i = j
  /\ \A i \in Signers, p \in psigs : signing[i] # None => p.nonce # signing[i].nonce

(* A token that was not misused has its session's tweaks, and its entry    *)
(* until that session is released.                                         *)
SessionKept == \A b \in begun : b.tok \notin misused =>
  /\ entry[b.tok].tweaks = b.tweaks
  /\ b.id \notin ended => b.tok \in live
  /\ \A s \in Sessions : session[s] = b /\ aggregating[s] = "miss" => FALSE

(* A token that was not misused served one session.                        *)
OneSession ==
  /\ IsFiniteSet(begun)
  /\ \A b, x \in begun : b.tok = x.tok /\ b.tok \notin misused => b = x

IInv ==
  TypeOK /\ NonceOnce /\ OwnEntry /\ AggregateVerifies /\ NoncePlace /\ SessionKept /\ OneSession
================================================================================
