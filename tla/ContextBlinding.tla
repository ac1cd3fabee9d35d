----------------------------- MODULE ContextBlinding -----------------------------
(***************************************************************************)
(* Scalar blinding of the generator multiplication (src/cpu/src/           *)
(* ct_point.cpp) and its two owners: the contexts of the libsecp256k1 shim *)
(* (shim_context.cpp), which install theirs for the duration of a signing  *)
(* call, and ufsecp_context_randomize() (impl/ufsecp_core.cpp), which      *)
(* installs one for the calling thread.                                    *)
(*                                                                         *)
(* A seed is 32 bytes, a number of Seeds that may be past the order.  The  *)
(* contract of the shim is that nobody signs with a context that is being  *)
(* randomized or destroyed.                                                *)
(***************************************************************************)
EXTENDS SmallGroup

CONSTANTS Contexts, Threads, Seeds, NoContext

ASSUME BlindingAssumption == Seeds \subseteq Nat /\ NoContext \notin Contexts

VARIABLES
  context,     (* each secp256k1_context, NoContext if there is none       *)
  g_blinding,  (* each thread's BlindingState                              *)
  installed,   (* the scalar each thread last installed for itself, 0 when *)
               (* it cleared it or a shim call did                         *)
  scopes       (* the contexts of the thread's open ContextBlindingScopes  *)

blindingVars == <<context, g_blinding, installed, scopes>>

Cleared == [r |-> 0, neg_r_G |-> 0, active |-> FALSE]
Fresh == [blinded |-> FALSE, blind |-> 0, cached_r |-> 0, cached_r_G |-> 0,
          cached_r_G_valid |-> FALSE]

BlindingInit ==
  /\ context = [c \in Contexts |-> NoContext]
  /\ g_blinding = [t \in Threads |-> Cleared]
  /\ installed = [t \in Threads |-> 0]
  /\ scopes = [t \in Threads |-> <<>>]

SetBlinding(r, r_G) == [r |-> r, neg_r_G |-> Neg(r_G), active |-> TRUE]

GeneratorMulBlinded(bl, k) ==
  IF bl.active THEN Plus(Plus(k, bl.r), bl.neg_r_G) ELSE k

-----------------------------------------------------------------------------
(* The contexts of the shim.                                               *)

InUse(c) == \E t \in Threads : \E j \in DOMAIN scopes[t] : scopes[t][j] = c
Exists(c) == context[c] # NoContext

Create(c) ==
  /\ ~Exists(c)
  /\ context' = [context EXCEPT ![c] = Fresh]
  /\ UNCHANGED <<g_blinding, installed, scopes>>

Clone(c, other) ==
  /\ Exists(c) /\ ~Exists(other)
  /\ context' = [context EXCEPT ![other] = context[c]]
  /\ UNCHANGED <<g_blinding, installed, scopes>>

Destroy(c) ==
  /\ Exists(c) /\ ~InUse(c)
  /\ context' = [context EXCEPT ![c] = NoContext]
  /\ UNCHANGED <<g_blinding, installed, scopes>>

(* parse_bytes_strict_nonzero() refuses 0 and a seed past the order.       *)
StrictlyParsed(seed) == seed \in NonZero

(* Broken variant: a refused seed leaves the cached scalar valid.          *)
RandomizeKeepsCache(c, seed) ==
  /\ Exists(c) /\ ~InUse(c)
  /\ context' = [context EXCEPT ![c] =
       IF StrictlyParsed(seed)
       THEN [blinded |-> TRUE, blind |-> seed, cached_r |-> seed, cached_r_G |-> seed,
             cached_r_G_valid |-> TRUE]
       ELSE [@ EXCEPT !.blinded = TRUE, !.blind = seed]]
  /\ UNCHANGED <<g_blinding, installed, scopes>>

Randomize(c, seed) ==
  /\ Exists(c) /\ ~InUse(c)
  /\ context' = [context EXCEPT ![c] =
       IF StrictlyParsed(seed)
       THEN [blinded |-> TRUE, blind |-> seed, cached_r |-> seed, cached_r_G |-> seed,
             cached_r_G_valid |-> TRUE]
       ELSE [@ EXCEPT !.blinded = TRUE, !.blind = seed, !.cached_r_G_valid = FALSE]]
  /\ UNCHANGED <<g_blinding, installed, scopes>>

(* A null seed.  The multiple of the generator is not erased.              *)
Unrandomize(c) ==
  /\ Exists(c) /\ ~InUse(c)
  /\ context' = [context EXCEPT ![c] = [Fresh EXCEPT !.cached_r_G = context[c].cached_r_G]]
  /\ UNCHANGED <<g_blinding, installed, scopes>>

-----------------------------------------------------------------------------
(* Signing.  schnorrsig_sign_custom() opens a scope and hands a message of *)
(* 32 bytes on to schnorrsig_sign32(), which opens another on the same     *)
(* context and is the one that multiplies.                                 *)

FromBytes(seed) == seed % Order

Applied(t, x) ==
  CASE ~x.blinded -> g_blinding[t]
    [] x.blinded /\ x.cached_r_G_valid -> SetBlinding(x.cached_r, x.cached_r_G)
    [] x.blinded /\ ~x.cached_r_G_valid /\ FromBytes(x.blind) = 0 -> g_blinding[t]
    [] OTHER -> SetBlinding(FromBytes(x.blind), FromBytes(x.blind))

OpenScope(t, c) ==
  /\ Exists(c)
  /\ scopes[t] = <<>> \/ scopes[t] = <<c>>
  /\ g_blinding' = [g_blinding EXCEPT ![t] = Applied(t, context[c])]
  /\ scopes' = [scopes EXCEPT ![t] = Append(@, c)]
  /\ UNCHANGED <<context, installed>>

(* Broken variant: the destructor leaves the blinding.                     *)
CloseScopeOnly(t) ==
  /\ scopes[t] # <<>>
  /\ scopes' = [scopes EXCEPT ![t] = SubSeq(@, 1, Len(@) - 1)]
  /\ installed' = [installed EXCEPT ![t] = 0]
  /\ UNCHANGED <<context, g_blinding>>

(* The destructor clears, whatever the constructor did.                    *)
CloseScope(t) ==
  /\ scopes[t] # <<>>
  /\ scopes' = [scopes EXCEPT ![t] = SubSeq(@, 1, Len(@) - 1)]
  /\ g_blinding' = [g_blinding EXCEPT ![t] = Cleared]
  /\ installed' = [installed EXCEPT ![t] = 0]
  /\ UNCHANGED context

(* ufsecp_context_randomize(); a seed here is the hash of the caller's.    *)
UfsecpRandomize(t, seed) ==
  /\ scopes[t] = <<>>
  /\ FromBytes(seed) # 0
  /\ g_blinding' = [g_blinding EXCEPT ![t] = SetBlinding(FromBytes(seed), FromBytes(seed))]
  /\ installed' = [installed EXCEPT ![t] = FromBytes(seed)]
  /\ UNCHANGED <<context, scopes>>

UfsecpUnrandomize(t) ==
  /\ scopes[t] = <<>>
  /\ g_blinding' = [g_blinding EXCEPT ![t] = Cleared]
  /\ installed' = [installed EXCEPT ![t] = 0]
  /\ UNCHANGED <<context, scopes>>

BlindingNext ==
  \/ \E c \in Contexts :
       \/ Create(c) \/ Destroy(c) \/ Unrandomize(c)
       \/ \E other \in Contexts : Clone(c, other)
       \/ \E seed \in Seeds : Randomize(c, seed)
  \/ \E t \in Threads :
       \/ CloseScope(t) \/ UfsecpUnrandomize(t)
       \/ \E c \in Contexts : OpenScope(t, c)
       \/ \E seed \in Seeds : UfsecpRandomize(t, seed)

BlindingSpec == BlindingInit /\ [][BlindingNext]_blindingVars

-----------------------------------------------------------------------------
(* Blinding never changes a product, whatever was randomized, cloned,      *)
(* nested or cleared, in what order and on which thread; and a thread that *)
(* is not signing has no blinding but what it installed for itself.        *)
BlindingNeutral ==
  \A t \in Threads :
    /\ \A k \in Scalar : GeneratorMulBlinded(g_blinding[t], k) = k
    /\ scopes[t] = <<>> =>
         g_blinding[t] = IF installed[t] = 0 THEN Cleared
                         ELSE SetBlinding(installed[t], installed[t])

(* The scope that was opened last multiplies under the blinding of its own *)
(* context, not of another on the same thread or of its earlier seeds      *)
(* ("achieves true per-context semantics", shim_context.cpp).              *)
OwnBlinding ==
  [][\A t \in Threads :
       /\ Len(scopes'[t]) > Len(scopes[t])
       /\ LET x == context[scopes'[t][Len(scopes'[t])]]
          IN  x.blinded /\ FromBytes(x.blind) # 0
       => g_blinding'[t] = LET x == context[scopes'[t][Len(scopes'[t])]]
                           IN  SetBlinding(FromBytes(x.blind), FromBytes(x.blind))]_blindingVars
================================================================================
