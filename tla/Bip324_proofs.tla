----------------------------- MODULE Bip324_proofs -----------------------------
(***************************************************************************)
(* The safety of a BIP-324 session, proved for payloads and buffers of any *)
(* size and any number of packets.                                         *)
(***************************************************************************)
EXTENDS Bip324, SequenceTheorems, TLAPS

USE Bip324Assumption, NoneAssumption

-----------------------------------------------------------------------------
(* The peer of a peer is a peer, and another one.                          *)
LEMMA PeerOfPeer ==
  ASSUME NEW p \in Peers
  PROVE  PeerOf(p) \in Peers /\ PeerOf(p) # p /\ PeerOf(PeerOf(p)) = p
BY DEF Peers, PeerOf

(* Keys are pairs of encodings.                                            *)
LEMMA SessionKeyType ==
  ASSUME NEW p \in Peers, NEW enc \in Encodings
  PROVE  SessionKey(p, enc) \in Encodings \X Encodings /\ SessionKey(p, enc) # None
<1>1. p \in Encodings
  BY DEF Encodings
<1>2. SessionKey(p, enc) \in Encodings \X Encodings
  BY <1>1 DEF SessionKey
<1> QED
  BY <1>2

-----------------------------------------------------------------------------
LEMMA InitInv == Bip324Init => Bip324IInv
<1> SUFFICES ASSUME Bip324Init PROVE Bip324IInv
  OBVIOUS
<1>1. Bip324TypeOK
  BY DEF Bip324Init, Bip324TypeOK
<1>2. NonceOnce /\ InStep /\ NotYet /\ SealedInOrder
  BY DEF Bip324Init, NonceOnce, InStep, NotYet, SealedInOrder
<1>3. OpenedInOrder
  BY DEF Bip324Init, OpenedInOrder
<1>4. AllSealed
  BY DEF Bip324Init, AllSealed
<1> QED
  BY <1>1, <1>2, <1>3, <1>4 DEF Bip324IInv

-----------------------------------------------------------------------------
(* A handshake happens before the peer has sealed or opened anything.      *)
LEMMA HandshakeInv ==
  ASSUME Bip324IInv, NEW p \in Peers, NEW enc \in Encodings, Handshake(p, enc)
  PROVE  Bip324IInv'
<1> USE DEF Bip324IInv
<1>0. key[p] = None /\ sendctr[p] = 0 /\ recvctr[p] = 0 /\ \A pkt \in wire : pkt.from # p
  <2>1. key[p] = None /\ sendctr[p] = 0 /\ recvctr[p] = 0
    BY DEF Handshake, NotYet
  <2>2. \A pkt \in wire : pkt \in Packet
    BY DEF Bip324TypeOK
  <2>3. \A pkt \in wire : pkt.from # p
    BY <2>1, <2>2 DEF SealedInOrder, Packet
  <2> QED
    BY <2>1, <2>3
<1>1. CASE enc = Degenerate
  <2>1. UNCHANGED <<key, sendctr, recvctr, wire, opened, refused>>
    BY <1>1 DEF Handshake
  <2>2. Bip324TypeOK'
    BY <2>1 DEF Handshake, Bip324TypeOK
  <2> QED
    BY <2>1, <2>2 DEF NonceOnce, InStep, OpenedInOrder, NotYet, SealedInOrder, AllSealed
<1>2. CASE enc # Degenerate
  <2>1. /\ key' = [key EXCEPT ![p] = SessionKey(p, enc)]
        /\ privkey' = [privkey EXCEPT ![p] = FALSE]
        /\ UNCHANGED <<wire, opened, refused>>
    BY <1>2 DEF Handshake
  <2>2. sendctr' = sendctr /\ recvctr' = recvctr
    <3>1. /\ sendctr \in [Peers -> Nat] /\ recvctr \in [Peers -> Nat]
          /\ sendctr[p] = 0 /\ recvctr[p] = 0
      BY <1>0 DEF Bip324TypeOK
    <3>2. sendctr' = [sendctr EXCEPT ![p] = 0] /\ recvctr' = [recvctr EXCEPT ![p] = 0]
      BY <1>2 DEF Handshake
    <3> QED
      BY <3>1, <3>2
  <2>3. SessionKey(p, enc) \in Encodings \X Encodings /\ SessionKey(p, enc) # None
    BY SessionKeyType
  <2>4. Bip324TypeOK'
    BY <2>1, <2>2, <2>3 DEF Bip324TypeOK
  <2>5. SealedInOrder'
    BY <1>0, <2>1, <2>2 DEF SealedInOrder, Bip324TypeOK, Packet
  <2>6. NotYet'
    BY <1>0, <2>1, <2>2 DEF NotYet, Bip324TypeOK
  <2>7. InStep'
    <3> SUFFICES ASSUME NEW q \in Peers, key'[q] # None, recvctr'[q] > 0
                 PROVE  key'[PeerOf(q)] = key'[q] /\ recvctr'[q] <= sendctr'[PeerOf(q)]
      BY DEF InStep
    <3>1. q # p /\ recvctr[q] > 0
      BY <1>0, <2>2 DEF Bip324TypeOK
    <3>2. p = PeerOf(q) /\ key[q] # None
      BY <3>1, <2>1 DEF PeerOf, Peers, Bip324TypeOK
    <3>3. recvctr[q] <= sendctr[p] /\ sendctr[p] = 0 /\ recvctr[q] \in Nat
      BY <3>1, <3>2, <1>0 DEF InStep, Bip324TypeOK
    <3> QED
      BY <3>1, <3>3
  <2>8. OpenedInOrder'
    <3> SUFFICES ASSUME NEW q \in Peers
                 PROVE  /\ Len(opened[q]) = recvctr[q]
                        /\ \A i \in 1..Len(opened[q]) : \E pkt \in wire :
                             /\ pkt.from = PeerOf(q) /\ pkt.key = key'[q]
                             /\ pkt.ctr = i - 1 /\ pkt.size = opened[q][i]
      BY <2>1, <2>2 DEF OpenedInOrder
    <3>1. Len(opened[q]) = recvctr[q]
      BY DEF OpenedInOrder
    <3>2. CASE q = p
      BY <3>1, <3>2, <1>0
    <3>3. CASE q # p
      BY <3>1, <3>3, <2>1 DEF OpenedInOrder, Bip324TypeOK
    <3> QED
      BY <3>2, <3>3
  <2>9. NonceOnce' /\ AllSealed'
    BY <2>1, <2>2 DEF NonceOnce, AllSealed
  <2> QED
    BY <2>4, <2>5, <2>6, <2>7, <2>8, <2>9
<1> QED
  BY <1>1, <1>2

(* The packet sealed has a counter no packet of this peer has.             *)
LEMMA EncryptInv ==
  ASSUME Bip324IInv, NEW p \in Peers, NEW size \in Sizes, NEW room \in Sizes, Encrypt(p, size, room)
  PROVE  Bip324IInv'
<1> USE DEF Bip324IInv
<1> DEFINE new == [from |-> p, key |-> key[p], ctr |-> sendctr[p], size |-> size]
<1>1. /\ key[p] # None
      /\ sendctr' = [sendctr EXCEPT ![p] = sendctr[p] + 1]
      /\ wire' = wire \cup {new}
      /\ UNCHANGED <<privkey, key, recvctr, opened, refused>>
  BY DEF Encrypt
<1>2. new \in Packet
  BY <1>1 DEF Bip324TypeOK, Packet
<1> HIDE DEF new
<1>3. new.from = p /\ new.key = key[p] /\ new.ctr = sendctr[p]
  BY DEF new
<1>4. \A q \in Peers : sendctr'[q] \in Nat /\ sendctr'[q] >= sendctr[q] /\ sendctr'[p] = sendctr[p] + 1
  BY <1>1 DEF Bip324TypeOK
<1>5. Bip324TypeOK'
  BY <1>1, <1>2 DEF Bip324TypeOK
<1>6. SealedInOrder'
  <2>1. \A pkt \in wire : pkt \in Packet
    BY DEF Bip324TypeOK
  <2>2. \A pkt \in wire : pkt.from \in Peers /\ pkt.ctr \in Nat
    BY <2>1 DEF Packet
  <2>3. \A pkt \in wire : pkt.ctr < sendctr'[pkt.from]
    BY <2>2, <1>4 DEF SealedInOrder, Bip324TypeOK
  <2>4. sendctr[p] \in Nat
    BY DEF Bip324TypeOK
  <2> QED
    BY <1>1, <1>3, <1>4, <2>3, <2>4 DEF SealedInOrder
<1>7. NonceOnce'
  <2>1. \A pkt \in wire : pkt.from = p => pkt.ctr # new.ctr
    <3>1. \A pkt \in wire : pkt \in Packet
      BY DEF Bip324TypeOK
    <3> QED
      BY <1>3, <3>1 DEF SealedInOrder, Bip324TypeOK, Packet
  <2> QED
    BY <1>1, <1>3, <2>1 DEF NonceOnce
<1>8. InStep'
  <2> SUFFICES ASSUME NEW q \in Peers, key'[q] # None, recvctr'[q] > 0
               PROVE  key'[PeerOf(q)] = key'[q] /\ recvctr'[q] <= sendctr'[PeerOf(q)]
    BY DEF InStep
  <2>1. key[PeerOf(q)] = key[q] /\ recvctr[q] <= sendctr[PeerOf(q)]
    BY <1>1 DEF InStep
  <2>2. recvctr[q] \in Nat /\ sendctr[PeerOf(q)] \in Nat
    BY PeerOfPeer DEF Bip324TypeOK
  <2> QED
    BY <1>1, <1>4, <2>1, <2>2, PeerOfPeer
<1>9. OpenedInOrder'
  BY <1>1 DEF OpenedInOrder
<1>10. NotYet'
  BY <1>1 DEF NotYet, Bip324TypeOK
<1>11. AllSealed'
  <2> SUFFICES ASSUME NEW q \in Peers, NEW n \in 0..(sendctr'[q] - 1)
               PROVE  \E pkt \in wire' : pkt.from = q /\ pkt.ctr = n
    BY DEF AllSealed
  <2>1. sendctr[q] \in Nat /\ sendctr[p] \in Nat
    BY DEF Bip324TypeOK
  <2>2. CASE n \in 0..(sendctr[q] - 1)
    BY <2>2, <1>1 DEF AllSealed
  <2>3. CASE n \notin 0..(sendctr[q] - 1)
    <3>1. q = p /\ n = sendctr[p]
      BY <2>1, <2>3, <1>1 DEF Bip324TypeOK
    <3> QED
      BY <3>1, <1>1, <1>3
  <2> QED
    BY <2>2, <2>3
<1> QED
  BY <1>5, <1>6, <1>7, <1>8, <1>9, <1>10, <1>11

(* The packet opened is the peer's next one.                               *)
LEMMA DecryptInv ==
  ASSUME Bip324IInv, NEW p \in Peers, NEW pkt \in wire, NEW room \in Sizes, Decrypt(p, pkt, room)
  PROVE  Bip324IInv'
<1> USE DEF Bip324IInv
<1>1. /\ key[p] # None
      /\ pkt.from = PeerOf(p) /\ pkt.key = key[p] /\ pkt.ctr = recvctr[p]
      /\ recvctr' = [recvctr EXCEPT ![p] = recvctr[p] + 1]
      /\ opened' = [opened EXCEPT ![p] = Append(opened[p], pkt.size)]
      /\ UNCHANGED <<privkey, key, sendctr, wire>>
  BY DEF Decrypt, Opens
<1>2. pkt \in Packet
  BY DEF Bip324TypeOK
<1>3. pkt.size \in Sizes
  BY <1>2 DEF Packet
<1>4. opened[p] \in Seq(Sizes) /\ recvctr[p] \in Nat
  BY DEF Bip324TypeOK
<1>5. Bip324TypeOK'
  <2>1. recvctr' \in [Peers -> Nat]
    BY <1>1, <1>4 DEF Bip324TypeOK
  <2>2. Append(opened[p], pkt.size) \in Seq(Sizes)
    BY <1>3, <1>4
  <2>3. opened' \in [Peers -> Seq(Sizes)]
    BY <1>1, <2>2 DEF Bip324TypeOK
  <2>4. refused' \in [Peers -> SUBSET wire]
    <3>1. \/ refused' = [refused EXCEPT ![p] = refused[p] \cup {pkt}]
          \/ refused' = refused
      BY DEF Decrypt
    <3>2. refused \in [Peers -> SUBSET wire] /\ refused[p] \cup {pkt} \in SUBSET wire
      BY DEF Bip324TypeOK
    <3> QED
      BY <3>1, <3>2
  <2> QED
    BY <1>1, <2>1, <2>3, <2>4 DEF Bip324TypeOK
<1>6. InStep'
  <2> SUFFICES ASSUME NEW q \in Peers, key[q] # None, recvctr'[q] > 0
               PROVE  key[PeerOf(q)] = key[q] /\ recvctr'[q] <= sendctr[PeerOf(q)]
    BY <1>1 DEF InStep
  <2>1. CASE q = p
    <3>1. key[PeerOf(p)] = pkt.key /\ pkt.ctr < sendctr[PeerOf(p)]
      BY <1>1 DEF SealedInOrder
    <3>2. sendctr[PeerOf(p)] \in Nat
      BY PeerOfPeer DEF Bip324TypeOK
    <3>3. recvctr'[p] = recvctr[p] + 1
      BY <1>1 DEF Bip324TypeOK
    <3> QED
      BY <2>1, <3>1, <3>2, <3>3, <1>1, <1>4
  <2>2. CASE q # p
    <3>1. recvctr'[q] = recvctr[q]
      BY <1>1, <2>2 DEF Bip324TypeOK
    <3> QED
      BY <3>1 DEF InStep
  <2> QED
    BY <2>1, <2>2
<1>7. OpenedInOrder'
  <2> SUFFICES ASSUME NEW q \in Peers
               PROVE  /\ Len(opened'[q]) = recvctr'[q]
                      /\ \A i \in 1..Len(opened'[q]) : \E x \in wire :
                           /\ x.from = PeerOf(q) /\ x.key = key[q]
                           /\ x.ctr = i - 1 /\ x.size = opened'[q][i]
    BY <1>1 DEF OpenedInOrder
  <2>1. /\ Len(opened[q]) = recvctr[q]
        /\ \A i \in 1..Len(opened[q]) : \E x \in wire :
             /\ x.from = PeerOf(q) /\ x.key = key[q]
             /\ x.ctr = i - 1 /\ x.size = opened[q][i]
    BY DEF OpenedInOrder
  <2>2. CASE q # p
    <3>1. opened'[q] = opened[q] /\ recvctr'[q] = recvctr[q]
      BY <1>1, <2>2 DEF Bip324TypeOK
    <3> QED
      BY <2>1, <3>1
  <2>3. CASE q = p
    <3>1. opened'[p] = Append(opened[p], pkt.size) /\ recvctr'[p] = recvctr[p] + 1
      BY <1>1 DEF Bip324TypeOK
    <3>2. Len(opened'[p]) = Len(opened[p]) + 1
      BY <3>1, <1>3, <1>4
    <3>3. \A i \in 1..Len(opened[p]) : opened'[p][i] = opened[p][i]
      BY <3>1, <1>3, <1>4
    <3>4. opened'[p][Len(opened[p]) + 1] = pkt.size
      BY <3>1, <1>3, <1>4
    <3>5. ASSUME NEW i \in 1..Len(opened'[p])
          PROVE  \E x \in wire : /\ x.from = PeerOf(p) /\ x.key = key[p]
                                 /\ x.ctr = i - 1 /\ x.size = opened'[p][i]
      <4>1. CASE i = Len(opened[p]) + 1
        BY <4>1, <1>1, <1>4, <2>1, <2>3, <3>4
      <4>2. CASE i \in 1..Len(opened[p])
        BY <4>2, <2>1, <2>3, <3>3
      <4> QED
        BY <4>1, <4>2, <3>2, <1>4
    <3> QED
      BY <2>1, <2>3, <3>1, <3>2, <3>5
  <2> QED
    BY <2>2, <2>3
<1>8. NotYet'
  BY <1>1 DEF NotYet, Bip324TypeOK
<1>9. NonceOnce' /\ SealedInOrder' /\ AllSealed'
  BY <1>1 DEF NonceOnce, SealedInOrder, AllSealed
<1> QED
  BY <1>5, <1>6, <1>7, <1>8, <1>9

LEMMA StutterInv == Bip324IInv /\ UNCHANGED bip324Vars => Bip324IInv'
BY DEF bip324Vars, Bip324IInv, Bip324TypeOK, NonceOnce, InStep, OpenedInOrder, NotYet, SealedInOrder, AllSealed

LEMMA NextInv == Bip324IInv /\ [Bip324Next]_bip324Vars => Bip324IInv'
<1> SUFFICES ASSUME Bip324IInv, [Bip324Next]_bip324Vars PROVE Bip324IInv'
  OBVIOUS
<1>1. ASSUME NEW p \in Peers, NEW enc \in Encodings \ {p}, Handshake(p, enc) PROVE Bip324IInv'
  BY <1>1, HandshakeInv
<1>2. ASSUME NEW p \in Peers, NEW size \in Sizes, NEW room \in Sizes, Encrypt(p, size, room)
      PROVE  Bip324IInv'
  BY <1>2, EncryptInv
<1>3. ASSUME NEW p \in Peers, Deliver(p) PROVE Bip324IInv'
  BY <1>3, DecryptInv DEF Deliver
<1>4. ASSUME NEW p \in Peers, NEW pkt \in wire, NEW intact \in BOOLEAN, Reject(p, pkt, intact)
      PROVE  Bip324IInv'
  BY <1>4, StutterInv DEF Reject
<1>5. ASSUME UNCHANGED bip324Vars PROVE Bip324IInv'
  BY <1>5, StutterInv
<1> QED
  BY <1>1, <1>2, <1>3, <1>4, <1>5 DEF Bip324Next

(* The strengthening holds in every state of a pair of sessions.           *)
THEOREM Invariance == Bip324Spec => []Bip324IInv
<1>1. Bip324Init => Bip324IInv
  BY InitInv
<1>2. Bip324IInv /\ [Bip324Next]_bip324Vars => Bip324IInv'
  BY NextInv
<1> QED
  BY <1>1, <1>2, PTL DEF Bip324Spec

(* complete_handshake() spends the private key and sets the ciphers up     *)
(* once, and every value of every variable has its type.                   *)
THEOREM TypeCorrect == Bip324Spec => []Bip324TypeOK
<1>1. Bip324IInv => Bip324TypeOK
  BY DEF Bip324IInv
<1> QED
  BY <1>1, Invariance, PTL

(* Bip324Cipher::encrypt() never seals two packets with one nonce, however *)
(* many packets and failed calls there are.                                *)
THEOREM NonceNeverReused == Bip324Spec => []NonceOnce
<1>1. Bip324IInv => NonceOnce
  BY DEF Bip324IInv
<1> QED
  BY <1>1, Invariance, PTL

(* Bip324Cipher::decrypt() does not move its counter past the sender's,    *)
(* whatever it is fed.                                                     *)
THEOREM CountersInStep == Bip324Spec => []InStep
<1>1. Bip324IInv => InStep
  BY DEF Bip324IInv
<1> QED
  BY <1>1, Invariance, PTL

(* What a session opens is what the peer sealed, by counter.               *)
THEOREM OpensWhatWasSealed == Bip324Spec => []OpenedInOrder
<1>1. Bip324IInv => OpenedInOrder
  BY DEF Bip324IInv
<1> QED
  BY <1>1, Invariance, PTL

-----------------------------------------------------------------------------
(* SealedBy() holds each packet's payload at the place of its counter, and *)
(* nothing else.                                                           *)
Places == \A p \in Peers :
  /\ SealedBy(p) \in Seq(Sizes) /\ Len(SealedBy(p)) = sendctr[p]
  /\ \A pkt \in wire : pkt.from = p =>
       pkt.ctr + 1 \in 1..sendctr[p] /\ SealedBy(p)[pkt.ctr + 1] = pkt.size
  /\ \A n \in 1..sendctr[p] : \E pkt \in wire : pkt.from = p /\ pkt.ctr + 1 = n

LEMMA PlacesFollow == Bip324IInv => Places
<1> SUFFICES ASSUME Bip324IInv, NEW p \in Peers
             PROVE  /\ SealedBy(p) \in Seq(Sizes) /\ Len(SealedBy(p)) = sendctr[p]
                    /\ \A pkt \in wire : pkt.from = p =>
                         pkt.ctr + 1 \in 1..sendctr[p] /\ SealedBy(p)[pkt.ctr + 1] = pkt.size
                    /\ \A n \in 1..sendctr[p] : \E pkt \in wire : pkt.from = p /\ pkt.ctr + 1 = n
  BY DEF Places
<1>1. sendctr[p] \in Nat /\ \A pkt \in wire : pkt \in Packet
  BY DEF Bip324IInv, Bip324TypeOK
<1>2. ASSUME NEW pkt \in wire, pkt.from = p
      PROVE  pkt.ctr + 1 \in 1..sendctr[p] /\ SealedBy(p)[pkt.ctr + 1] = pkt.size
  <2>1. pkt.ctr \in Nat
    BY <1>1 DEF Packet
  <2>2. pkt.ctr + 1 \in 1..sendctr[p]
    BY <1>1, <1>2, <2>1 DEF Bip324IInv, SealedInOrder
  <2>3. \A x \in wire : x.from = p /\ x.ctr = pkt.ctr => x = pkt
    BY <1>2 DEF Bip324IInv, SealedInOrder, NonceOnce
  <2>4. pkt.ctr = (pkt.ctr + 1) - 1
    BY <2>1
  <2>5. (CHOOSE x \in wire : x.from = p /\ x.ctr = (pkt.ctr + 1) - 1) = pkt
    BY <1>2, <2>3, <2>4
  <2> QED
    BY <2>2, <2>5 DEF SealedBy
<1>3. ASSUME NEW n \in 1..sendctr[p]
      PROVE  \E pkt \in wire : pkt.from = p /\ pkt.ctr + 1 = n
  <2>1. n - 1 \in 0..(sendctr[p] - 1)
    BY <1>1
  <2>2. PICK pkt \in wire : pkt.from = p /\ pkt.ctr = n - 1
    BY <2>1 DEF Bip324IInv, AllSealed
  <2> QED
    BY <1>1, <2>2
<1>4. SealedBy(p) \in [1..sendctr[p] -> Sizes]
  <2>1. ASSUME NEW n \in 1..sendctr[p]
        PROVE  SealedBy(p)[n] \in Sizes
    BY <1>1, <1>2, <1>3 DEF Packet
  <2>2. SealedBy(p) = [n \in 1..sendctr[p] |-> SealedBy(p)[n]]
    BY DEF SealedBy
  <2> QED
    BY <2>1, <2>2
<1>5. SealedBy(p) \in Seq(Sizes)
  BY <1>1, <1>4, SeqDef
<1>6. Len(SealedBy(p)) = sendctr[p]
  BY <1>1, <1>4, <1>5, LenProperties
<1> QED
  BY <1>2, <1>3, <1>5, <1>6

LEMMA PlacesFollowPrimed == Bip324IInv' => Places'
BY PlacesFollow, PTL

(* What is left alone stays sealed.                                        *)
LEMMA SealedStays ==
  ASSUME UNCHANGED <<sendctr, wire>>, NEW p \in Peers
  PROVE  SealedBy(p)' = SealedBy(p)
BY DEF SealedBy

LEMMA InitIsChannel == Bip324Init => Sessions!Init
<1> SUFFICES ASSUME Bip324Init PROVE Sessions!Init
  OBVIOUS
<1>1. Places
  BY InitInv, PlacesFollow
<1>2. ASSUME NEW p \in Peers PROVE SealedBy(p) = <<>>
  <2>1. SealedBy(p) \in Seq(Sizes) /\ Len(SealedBy(p)) = 0
    BY <1>1 DEF Places, Bip324Init
  <2> QED
    BY <2>1, EmptySeq
<1> QED
  BY <1>2 DEF Bip324Init, Sessions!Init

(* Encrypt() is Send().                                                    *)
LEMMA EncryptSends ==
  ASSUME Bip324IInv, Bip324IInv', NEW p \in Peers, NEW size \in Sizes, NEW room \in Sizes,
         Encrypt(p, size, room)
  PROVE  Sessions!Send(p)
<1> DEFINE new == [from |-> p, key |-> key[p], ctr |-> sendctr[p], size |-> size]
<1>1. /\ sendctr' = [sendctr EXCEPT ![p] = sendctr[p] + 1]
      /\ wire' = wire \cup {new}
      /\ opened' = opened
  BY DEF Encrypt
<1>2. new \in wire' /\ new.from = p /\ new.ctr = sendctr[p] /\ new.size = size
  BY <1>1
<1> HIDE DEF new
<1>3. sendctr \in [Peers -> Nat]
  BY DEF Bip324IInv, Bip324TypeOK
<1>4. Places /\ Places'
  BY PlacesFollow, PlacesFollowPrimed
<1>5. ASSUME NEW q \in Peers, NEW n \in 1..sendctr[q]
      PROVE  SealedBy(q)'[n] = SealedBy(q)[n]
  <2>1. PICK pkt \in wire : pkt.from = q /\ pkt.ctr + 1 = n
    BY <1>4 DEF Places
  <2>2. pkt \in wire'
    BY <1>1
  <2> QED
    BY <1>4, <2>1, <2>2 DEF Places
<1>6. SealedBy(p)'[sendctr[p] + 1] = size
  BY <1>2, <1>4 DEF Places
<1>7. /\ SealedBy(p) \in Seq(Sizes) /\ SealedBy(p)' \in Seq(Sizes)
      /\ Len(SealedBy(p)) = sendctr[p] /\ Len(SealedBy(p)') = sendctr[p] + 1
  BY <1>1, <1>3, <1>4 DEF Places
<1>8. SealedBy(p)' = Append(SealedBy(p), size)
  <2> DEFINE old == SealedBy(p)
             now == SealedBy(p)'
             app == Append(old, size)
  <2>1. app \in Seq(Sizes) /\ Len(app) = sendctr[p] + 1
    BY <1>7
  <2>2. \A n \in 1..sendctr[p] : app[n] = old[n]
    BY <1>7
  <2>3. app[sendctr[p] + 1] = size
    BY <1>7
  <2>4. old \in Seq(Sizes) /\ now \in Seq(Sizes) /\ Len(now) = sendctr[p] + 1 /\ sendctr[p] \in Nat
    BY <1>3, <1>7
  <2>5. (\A n \in 1..sendctr[p] : now[n] = old[n]) /\ now[sendctr[p] + 1] = size
    BY <1>5, <1>6
  <2> HIDE DEF old, now, app
  <2>6. \A n \in 1..Len(now) : now[n] = app[n]
    <3> TAKE n \in 1..Len(now)
    <3>1. n \in 1..sendctr[p] \/ n = sendctr[p] + 1
      BY <2>4
    <3> QED
      BY <3>1, <2>2, <2>3, <2>5
  <2>7. now = app
    BY <2>1, <2>4, <2>6, SeqEqual
  <2> QED
    BY <2>7 DEF now, app, old
<1>9. ASSUME NEW q \in Peers, q # p PROVE SealedBy(q)' = SealedBy(q)
  <2>1. sendctr'[q] = sendctr[q]
    BY <1>1, <1>3, <1>9
  <2>2. /\ SealedBy(q) \in Seq(Sizes) /\ SealedBy(q)' \in Seq(Sizes)
        /\ Len(SealedBy(q)) = sendctr[q] /\ Len(SealedBy(q)') = sendctr[q]
    BY <1>4, <2>1 DEF Places
  <2>3. \A n \in 1..Len(SealedBy(q)) : SealedBy(q)[n] = SealedBy(q)'[n]
    BY <1>5, <2>2
  <2> QED
    BY <2>2, <2>3, SeqEqual
<1> QED
  BY <1>1, <1>8, <1>9 DEF Sessions!Send

(* Decrypt() is Receive().                                                 *)
LEMMA DecryptReceives ==
  ASSUME Bip324IInv, NEW p \in Peers, NEW pkt \in wire, NEW room \in Sizes, Decrypt(p, pkt, room)
  PROVE  Sessions!Receive(p)
<1>1. /\ pkt.from = PeerOf(p) /\ pkt.ctr = recvctr[p]
      /\ opened' = [opened EXCEPT ![p] = Append(opened[p], pkt.size)]
      /\ UNCHANGED <<sendctr, wire>>
  BY DEF Decrypt, Opens
<1>2. Places
  BY PlacesFollow
<1>3. Len(opened[p]) = recvctr[p] /\ recvctr[p] \in Nat
  BY DEF Bip324IInv, OpenedInOrder, Bip324TypeOK
<1>4. PeerOf(p) \in Peers \ {p}
  BY PeerOfPeer
<1>5. /\ Len(opened[p]) < Len(SealedBy(PeerOf(p)))
      /\ SealedBy(PeerOf(p))[Len(opened[p]) + 1] = pkt.size
  BY <1>1, <1>2, <1>3, <1>4 DEF Places
<1>6. \A q \in Peers : SealedBy(q)' = SealedBy(q)
  BY <1>1, SealedStays
<1> QED
  BY <1>1, <1>4, <1>5, <1>6 DEF Sessions!Receive

(* Everything else leaves the channel alone.                               *)
LEMMA StepIsChannel ==
  Bip324IInv /\ Bip324IInv' /\ [Bip324Next]_bip324Vars
    => [Sessions!Next]_<<[p \in Peers |-> SealedBy(p)], opened>>
<1> SUFFICES ASSUME Bip324IInv, Bip324IInv', [Bip324Next]_bip324Vars
             PROVE  [Sessions!Next]_<<[p \in Peers |-> SealedBy(p)], opened>>
  OBVIOUS
<1>0. ASSUME UNCHANGED <<sendctr, wire, opened>>
      PROVE  UNCHANGED <<[p \in Peers |-> SealedBy(p)], opened>>
  BY <1>0, SealedStays
<1>1. ASSUME NEW p \in Peers, NEW enc \in Encodings \ {p}, Handshake(p, enc)
      PROVE  UNCHANGED <<[q \in Peers |-> SealedBy(q)], opened>>
  <2>1. sendctr \in [Peers -> Nat] /\ sendctr[p] = 0
    BY <1>1 DEF Handshake, Bip324IInv, Bip324TypeOK, NotYet
  <2>2. \/ sendctr' = sendctr
        \/ sendctr' = [sendctr EXCEPT ![p] = 0]
    BY <1>1 DEF Handshake
  <2>3. sendctr' = sendctr /\ wire' = wire /\ opened' = opened
    BY <1>1, <2>1, <2>2 DEF Handshake
  <2> QED
    BY <1>0, <2>3
<1>2. ASSUME NEW p \in Peers, NEW size \in Sizes, NEW room \in Sizes, Encrypt(p, size, room)
      PROVE  Sessions!Next
  BY <1>2, EncryptSends DEF Sessions!Next
<1>3. ASSUME NEW p \in Peers, Deliver(p) PROVE Sessions!Next
  BY <1>3, DecryptReceives DEF Deliver, Sessions!Next
<1>4. ASSUME NEW p \in Peers, NEW pkt \in wire, NEW intact \in BOOLEAN, Reject(p, pkt, intact)
      PROVE  UNCHANGED <<[q \in Peers |-> SealedBy(q)], opened>>
  BY <1>0, <1>4 DEF Reject, bip324Vars
<1>5. ASSUME UNCHANGED bip324Vars
      PROVE  UNCHANGED <<[p \in Peers |-> SealedBy(p)], opened>>
  BY <1>0, <1>5 DEF bip324Vars
<1> QED
  BY <1>1, <1>2, <1>3, <1>4, <1>5 DEF Bip324Next

(* Two sessions of Bip324Session, over any transport, are a channel: each  *)
(* side opens what the other sealed, in order and without holes.           *)
THEOREM SessionsAreAChannel == Bip324Spec => ChannelSpec
<1>1. Bip324Init => Sessions!Init
  BY InitIsChannel
<1>2. Bip324IInv /\ Bip324IInv' /\ [Bip324Next]_bip324Vars
        => [Sessions!Next]_<<[p \in Peers |-> SealedBy(p)], opened>>
  BY StepIsChannel
<1> QED
  BY <1>1, <1>2, Invariance, PTL DEF Bip324Spec, ChannelSpec, Sessions!Spec
================================================================================
