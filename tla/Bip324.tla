--------------------------------- MODULE Bip324 ---------------------------------
(***************************************************************************)
(* A BIP-324 session between two peers: Bip324Session and Bip324Cipher     *)
(* (src/cpu/src/bip324.cpp) behind the ufsecp_bip324_* calls of the C ABI  *)
(* (src/cpu/src/impl/ufsecp_coins.cpp).                                    *)
(*                                                                         *)
(* Cryptography is ideal.  A session key is the pair of encodings it was   *)
(* derived from, initiator's first; a packet opens under exactly the key,  *)
(* direction and counter it was sealed with, and only if nobody touched    *)
(* it.  The transport may lose, repeat, reorder and damage packets.        *)
(***************************************************************************)
EXTENDS Integers, Sequences, SequencesExt

CONSTANTS Initiator, Responder,   (* the two peers                         *)
          Other,                  (* an encoding that is neither's         *)
          Degenerate,             (* an encoding whose ECDH fails          *)
          None,                   (* no key                                *)
          Sizes,                  (* sizes of payloads and of buffers      *)
          MaxPayload,             (* payloads above it do not fit 3 bytes  *)
          MaxPackets              (* bound: packets sealed by each peer    *)

ASSUME Bip324Assumption ==
  /\ Sizes \subseteq Nat /\ MaxPayload \in Nat /\ MaxPackets \in Nat
  /\ Initiator # Responder
  /\ {Other, Degenerate} \cap {Initiator, Responder} = {} /\ Other # Degenerate

Peers == {Initiator, Responder}
Encodings == Peers \cup {Other, Degenerate}

ASSUME NoneAssumption == None \notin Encodings \X Encodings

PeerOf(p) == IF p = Initiator THEN Responder ELSE Initiator

VARIABLES
  privkey,      (* privkey[p]: privkey_valid_                              *)
  key,          (* key[p]: the keys of an established session, or None     *)
  sendctr,      (* send_cipher_.packet_counter_                            *)
  recvctr,      (* recv_cipher_.packet_counter_                            *)
  wire,         (* every packet ever sealed                                *)
  opened,       (* opened[p]: payloads recv_cipher_ has opened, in order   *)
  refused       (* refused[p]: packets last refused with BUF_TOO_SMALL     *)

bip324Vars == <<privkey, key, sendctr, recvctr, wire, opened, refused>>

(* A session made from a key that does not parse has no private key.       *)
Bip324Init ==
  /\ privkey \in [Peers -> BOOLEAN]
  /\ key = [p \in Peers |-> None]
  /\ sendctr = [p \in Peers |-> 0] /\ recvctr = [p \in Peers |-> 0]
  /\ wire = {}
  /\ opened = [p \in Peers |-> <<>>]
  /\ refused = [p \in Peers |-> {}]

-----------------------------------------------------------------------------
(* complete_handshake()                                                    *)

SessionKey(p, enc) == IF p = Initiator THEN <<p, enc>> ELSE <<enc, p>>

(* Broken variant: an established session shakes hands again.              *)
HandshakeAgain(p, enc) ==
  /\ privkey[p]
  /\ privkey' = privkey
  /\ IF enc = Degenerate
       THEN UNCHANGED <<key, sendctr, recvctr>>
       ELSE /\ key' = [key EXCEPT ![p] = SessionKey(p, enc)]
            /\ sendctr' = [sendctr EXCEPT ![p] = 0]
            /\ recvctr' = [recvctr EXCEPT ![p] = 0]
  /\ UNCHANGED <<wire, opened, refused>>

(* The private key is spent whether the exchange works or not.             *)
Handshake(p, enc) ==
  /\ key[p] = None /\ privkey[p]
  /\ privkey' = [privkey EXCEPT ![p] = FALSE]
  /\ IF enc = Degenerate
       THEN UNCHANGED <<key, sendctr, recvctr>>
       ELSE /\ key' = [key EXCEPT ![p] = SessionKey(p, enc)]
            /\ sendctr' = [sendctr EXCEPT ![p] = 0]
            /\ recvctr' = [recvctr EXCEPT ![p] = 0]
  /\ UNCHANGED <<wire, opened, refused>>

-----------------------------------------------------------------------------
(* ufsecp_bip324_encrypt().  A buffer or payload of the wrong size is      *)
(* refused before the cipher is touched, so such a call changes nothing.   *)

(* Broken variant: the counter moves before the payload is checked.        *)
EncryptCountsFirst(p, size, room) ==
  /\ key[p] # None /\ sendctr[p] < MaxPackets
  /\ room >= size
  /\ sendctr' = [sendctr EXCEPT ![p] = @ + 1]
  /\ wire' = IF size <= MaxPayload
               THEN wire \cup {[from |-> p, key |-> key[p], ctr |-> sendctr[p], size |-> size]}
               ELSE wire
  /\ UNCHANGED <<privkey, key, recvctr, opened, refused>>

Encrypt(p, size, room) ==
  /\ key[p] # None /\ sendctr[p] < MaxPackets
  /\ room >= size /\ size <= MaxPayload
  /\ sendctr' = [sendctr EXCEPT ![p] = @ + 1]
  /\ wire' = wire \cup {[from |-> p, key |-> key[p], ctr |-> sendctr[p], size |-> size]}
  /\ UNCHANGED <<privkey, key, recvctr, opened, refused>>

-----------------------------------------------------------------------------
(* ufsecp_bip324_decrypt()                                                 *)

(* Broken variant: the nonce is not bound to the counter.                  *)
OpensAnyCounter(p, pkt, intact) == intact /\ pkt.from = PeerOf(p) /\ pkt.key = key[p]

(* The tag verifies: the packet is as it was sealed, by the peer, in this  *)
(* session, and it is the next one.                                        *)
Opens(p, pkt, intact) ==
  intact /\ pkt.from = PeerOf(p) /\ pkt.key = key[p] /\ pkt.ctr = recvctr[p]

(* Opened, and handed to the caller if the buffer is large enough.         *)
Decrypt(p, pkt, room) ==
  /\ key[p] # None /\ Opens(p, pkt, TRUE)
  /\ recvctr' = [recvctr EXCEPT ![p] = @ + 1]
  /\ opened' = [opened EXCEPT ![p] = Append(@, pkt.size)]
  /\ IF room < pkt.size
       THEN refused' = [refused EXCEPT ![p] = @ \cup {pkt}]
       ELSE UNCHANGED refused
  /\ UNCHANGED <<privkey, key, sendctr, wire>>

(* Broken variant: a packet that fails to open is counted.                 *)
RejectCounts(p, pkt, intact) ==
  /\ key[p] # None /\ ~Opens(p, pkt, intact) /\ recvctr[p] <= MaxPackets
  /\ recvctr' = [recvctr EXCEPT ![p] = @ + 1]
  /\ UNCHANGED <<privkey, key, sendctr, wire, opened, refused>>

(* A damaged, repeated or early packet, or one of another session, fails   *)
(* to authenticate: VERIFY_FAIL and nothing changes.                       *)
Reject(p, pkt, intact) ==
  /\ key[p] # None /\ ~Opens(p, pkt, intact)
  /\ UNCHANGED bip324Vars

-----------------------------------------------------------------------------
Deliver(p) == \E pkt \in wire : \E room \in Sizes :
                Decrypt(p, pkt, room)

Bip324Next == \E p \in Peers :
  \/ \E enc \in Encodings \ {p} : Handshake(p, enc)
  \/ \E size \in Sizes : \E room \in Sizes : Encrypt(p, size, room)
  \/ Deliver(p)
  \/ \E pkt \in wire : \E intact \in BOOLEAN : Reject(p, pkt, intact)

Bip324Spec == Bip324Init /\ [][Bip324Next]_bip324Vars

(* The transport delivers in the end what it is asked to carry.            *)
Bip324FairSpec == Bip324Spec /\ \A p \in Peers : WF_bip324Vars(Deliver(p))

-----------------------------------------------------------------------------
Packet == [from : Peers, key : Encodings \X Encodings, ctr : Nat, size : Sizes]

(* Every variable keeps its type, and an established session has spent its *)
(* private key.                                                            *)
Bip324TypeOK ==
  /\ privkey \in [Peers -> BOOLEAN]
  /\ key \in [Peers -> (Encodings \X Encodings) \cup {None}]
  /\ \A p \in Peers : key[p] # None => ~privkey[p]
  /\ sendctr \in [Peers -> Nat] /\ recvctr \in [Peers -> Nat]
  /\ wire \subseteq Packet
  /\ opened \in [Peers -> Seq(Sizes)]
  /\ refused \in [Peers -> SUBSET wire]

(* No two packets are sealed with the same key, direction and counter: the *)
(* nonce of the AEAD is never used twice.                                  *)
NonceOnce == \A a, b \in wire :
  a.from = b.from /\ a.key = b.key /\ a.ctr = b.ctr => a = b

(* A receiver is never ahead of its sender.  With the counters together    *)
(* the next authentic packet always opens, whatever was rejected before    *)
(* (the property test_exploit_bip324_counter_desync.cpp tests once).       *)
InStep == \A p \in Peers :
  key[p] # None /\ recvctr[p] > 0 =>
    key[PeerOf(p)] = key[p] /\ recvctr[p] <= sendctr[PeerOf(p)]

(* What a session has opened is what the peer has sealed, in that order,   *)
(* with nothing left out.                                                  *)
OpenedInOrder == \A p \in Peers :
  /\ Len(opened[p]) = recvctr[p]
  /\ \A i \in 1..Len(opened[p]) :
       \E pkt \in wire : /\ pkt.from = PeerOf(p) /\ pkt.key = key[p]
                         /\ pkt.ctr = i - 1 /\ pkt.size = opened[p][i]

(* Every packet sealed for an established peer is opened in the end: no    *)
(* call that was refused has cost a counter on one side only.              *)
EverythingOpens == \A p \in Peers : \A n \in 1..MaxPackets :
  key[p] # None /\ key[PeerOf(p)] = key[p] /\ sendctr[PeerOf(p)] >= n ~> Len(opened[p]) >= n

-----------------------------------------------------------------------------
(* What p has sealed, by counter.                                          *)
SealedBy(p) == [n \in 1..sendctr[p] |-> (CHOOSE pkt \in wire : pkt.from = p /\ pkt.ctr = n - 1).size]

Sessions == INSTANCE Channel WITH
  Ends <- Peers, Payloads <- Sizes, sent <- [p \in Peers |-> SealedBy(p)], received <- opened

(* The two sessions are the channel: whatever the transport does, a peer   *)
(* opens the payloads the other one sealed, in order, without holes.       *)
ChannelSpec == Sessions!Spec

-----------------------------------------------------------------------------
(* The inductive invariant: a peer that is not established has moved no    *)
(* counter, and every counter value below sendctr was used for one packet, *)
(* under the one key the peer ever has.                                    *)
NotYet == \A p \in Peers :
  key[p] = None => sendctr[p] = 0 /\ recvctr[p] = 0

SealedInOrder == \A pkt \in wire :
  key[pkt.from] = pkt.key /\ pkt.ctr < sendctr[pkt.from]

AllSealed == \A p \in Peers : \A n \in 0..(sendctr[p] - 1) :
  \E pkt \in wire : pkt.from = p /\ pkt.ctr = n

Bip324IInv == /\ Bip324TypeOK /\ NonceOnce /\ InStep /\ OpenedInOrder
              /\ NotYet /\ SealedInOrder /\ AllSealed

(* BUF_TOO_SMALL is recoverable ("Caller should fix the input and retry"): *)
(* a packet refused with it still opens.                                   *)
RefusedCanBeRetried == \A p \in Peers : \A pkt \in refused[p] : Opens(p, pkt, TRUE)
================================================================================
