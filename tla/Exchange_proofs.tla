--------------------------- MODULE Exchange_proofs ---------------------------
(***************************************************************************)
(* Theorems about what the members of a room exchange besides the text:    *)
(* PeerMesh, PortTunnel, Presence and RoomChat, for any participants,      *)
(* edits, requests and lines and any bounds.                               *)
(***************************************************************************)
EXTENDS PeerMesh, PortTunnel, Presence, RoomChat, FiniteSetTheorems, SequenceTheorems, TLAPS

-----------------------------------------------------------------------------
(* PeerMesh: how two come to be connected.                                 *)

SignalRecord == [type : {"offer", "answer"}, from : Participant]

NegotiationOK ==
    /\ meshPeers \in [Participant -> [Participant -> EntryStates]]
    /\ meshSignals \in [Participant -> Seq(SignalRecord)]

\* Offers travel up, answers down.
Directed(signal, i) ==
    /\ signal.type = "offer" => signal.from < i
    /\ signal.type = "answer" => i < signal.from
SignalsDirected ==
    \A i \in Participant : \A n \in 1 .. Len(meshSignals[i]) : Directed(meshSignals[i][n], i)

MeshInv == NegotiationOK /\ SignalsDirected /\ NoCrossedOffers

-----------------------------------------------------------------------------
(* What the operations share.                                              *)

LEMMA BecomeKeepsType ==
    ASSUME NegotiationOK, NEW i \in Participant, NEW j \in Participant, NEW state \in EntryStates,
           Become(i, j, state)
    PROVE  /\ meshPeers' \in [Participant -> [Participant -> EntryStates]]
           /\ \A k, l \in Participant :
                 Entry(k, l)' = IF k = i /\ l = j THEN state ELSE Entry(k, l)
  BY DEF NegotiationOK, Become, Entry

\* A state that fits the order of the two leaves NoCrossedOffers as it is.
LEMMA BecomeKeepsOrder ==
    ASSUME NegotiationOK, NoCrossedOffers, NEW i \in Participant, NEW j \in Participant,
           NEW state \in EntryStates, Become(i, j, state),
           state \in {"offering", "offered", "connected"} => i < j,
           state \in {"answering", "answered"} => j < i
    PROVE  NoCrossedOffers'
  BY BecomeKeepsType DEF NoCrossedOffers

LEMMA SignalKeeps ==
    ASSUME NegotiationOK, SignalsDirected, NEW i \in Participant, NEW j \in Participant,
           NEW type \in {"offer", "answer"}, Signal(i, type, j),
           type = "offer" => i < j, type = "answer" => j < i
    PROVE  meshSignals' \in [Participant -> Seq(SignalRecord)] /\ SignalsDirected'
  <1> DEFINE signal == [type |-> type, from |-> i]
  <1>1. signal \in SignalRecord /\ Directed(signal, j)
    BY DEF SignalRecord, Directed
  <1>2. CASE meshSignals' = meshSignals
    BY <1>2 DEF NegotiationOK, SignalsDirected
  <1>3. CASE meshSignals' = [meshSignals EXCEPT ![j] = Append(@, signal)]
    <2>1. meshSignals' \in [Participant -> Seq(SignalRecord)]
      BY <1>1, <1>3 DEF NegotiationOK
    <2>2. ASSUME NEW k \in Participant, NEW n \in 1 .. Len(meshSignals'[k])
          PROVE  Directed(meshSignals'[k][n], k)
      <3>1. CASE k # j
        <4>1. meshSignals'[k] = meshSignals[k]
          BY <1>3, <3>1 DEF NegotiationOK
        <4> QED BY <2>2, <4>1 DEF SignalsDirected
      <3>2. CASE k = j
        <4>1. meshSignals'[k] = Append(meshSignals[j], signal) /\ meshSignals[j] \in Seq(SignalRecord)
          BY <1>3, <3>2 DEF NegotiationOK
        <4>2. CASE n \in 1 .. Len(meshSignals[j])
          BY <3>2, <4>1, <4>2 DEF SignalsDirected
        <4>3. CASE n = Len(meshSignals[j]) + 1
          BY <1>1, <3>2, <4>1, <4>3
        <4> QED BY <2>2, <4>1, <4>2, <4>3
      <3> QED BY <3>1, <3>2
    <2>3. SignalsDirected'
      BY <2>2 DEF SignalsDirected, Directed
    <2> QED BY <2>1, <2>3
  <1> QED BY <1>2, <1>3 DEF Signal

\* The signal that is handled, and those that are left.
LEMMA TookKeeps ==
    ASSUME NegotiationOK, SignalsDirected, NEW i \in Participant, meshSignals[i] # << >>,
           meshSignals' = Took(i)
    PROVE  /\ meshSignals' \in [Participant -> Seq(SignalRecord)] /\ SignalsDirected'
           /\ Head(meshSignals[i]) \in SignalRecord /\ Directed(Head(meshSignals[i]), i)
  <1>1. meshSignals[i] \in Seq(SignalRecord)
    BY DEF NegotiationOK
  <1>2. /\ Head(meshSignals[i]) = meshSignals[i][1] /\ 1 \in 1 .. Len(meshSignals[i])
        /\ Tail(meshSignals[i]) \in Seq(SignalRecord)
        /\ \A n \in 1 .. Len(Tail(meshSignals[i])) :
              Tail(meshSignals[i])[n] = meshSignals[i][n + 1] /\ n + 1 \in 1 .. Len(meshSignals[i])
    BY <1>1
  <1>3. meshSignals' = [meshSignals EXCEPT ![i] = Tail(@)]
    BY DEF Took
  <1>4. meshSignals' \in [Participant -> Seq(SignalRecord)]
    BY <1>2, <1>3 DEF NegotiationOK
  <1>5. ASSUME NEW k \in Participant, NEW n \in 1 .. Len(meshSignals'[k])
        PROVE  Directed(meshSignals'[k][n], k)
    <2>1. CASE k # i
      <3>1. meshSignals'[k] = meshSignals[k]
        BY <1>3, <2>1 DEF NegotiationOK
      <3> QED BY <1>5, <3>1 DEF SignalsDirected
    <2>2. CASE k = i
      <3>1. meshSignals'[k] = Tail(meshSignals[i])
        BY <1>3, <2>2 DEF NegotiationOK
      <3> QED BY <1>2, <1>5, <2>2, <3>1 DEF SignalsDirected
    <2> QED BY <2>1, <2>2
  <1>6. SignalsDirected'
    BY <1>5 DEF SignalsDirected, Directed
  <1>7. Head(meshSignals[i]) \in SignalRecord /\ Directed(Head(meshSignals[i]), i)
    BY <1>1, <1>2 DEF SignalsDirected
  <1> QED BY <1>4, <1>6, <1>7

-----------------------------------------------------------------------------

LEMMA MeshInvHolds == MeshInit => MeshInv
  BY DEF MeshInit, MeshInv, NegotiationOK, SignalsDirected, NoCrossedOffers, EntryStates, SignalRecord, Entry

LEMMA MeshInvStays == MeshInv /\ [MeshNext]_meshVars => MeshInv'
  <1> SUFFICES ASSUME MeshInv, [MeshNext]_meshVars PROVE MeshInv'
    OBVIOUS
  <1>0. NegotiationOK /\ SignalsDirected /\ NoCrossedOffers
    BY DEF MeshInv
  <1>a. ASSUME UNCHANGED meshSignals PROVE SignalsDirected' /\ meshSignals' \in [Participant -> Seq(SignalRecord)]
    BY <1>0, <1>a DEF NegotiationOK, SignalsDirected, Directed
  <1>b. ASSUME UNCHANGED meshPeers
        PROVE  NoCrossedOffers' /\ meshPeers' \in [Participant -> [Participant -> EntryStates]]
    BY <1>0, <1>b DEF NegotiationOK, NoCrossedOffers, Entry
  <1>1. ASSUME NEW i \in Participant, NEW j \in Participant, StartAsInitiator(i, j) PROVE MeshInv'
    <2>1. Become(i, j, "offering") /\ i < j /\ UNCHANGED meshSignals
      BY <1>1 DEF StartAsInitiator, Initiates
    <2>2. "offering" \in EntryStates
      BY DEF EntryStates
    <2> QED BY <1>0, <1>a, <2>1, <2>2, BecomeKeepsType, BecomeKeepsOrder DEF MeshInv, NegotiationOK
  <1>2. ASSUME NEW i \in Participant, NEW j \in Participant, OfferReady(i, j) PROVE MeshInv'
    \* Only the one with the lower id is offering.
    <2>1. Become(i, j, "offered") /\ Signal(i, "offer", j) /\ i < j
      BY <1>0, <1>2 DEF OfferReady, NoCrossedOffers
    <2>2. "offered" \in EntryStates
      BY DEF EntryStates
    <2> QED BY <1>0, <2>1, <2>2, BecomeKeepsType, BecomeKeepsOrder, SignalKeeps DEF MeshInv, NegotiationOK
  <1>3. ASSUME NEW i \in Participant, NEW j \in Participant, AnswerReady(i, j) PROVE MeshInv'
    <2>1. Become(i, j, "answered") /\ Signal(i, "answer", j) /\ j < i
      BY <1>0, <1>3 DEF AnswerReady, NoCrossedOffers
    <2>2. "answered" \in EntryStates
      BY DEF EntryStates
    <2> QED BY <1>0, <2>1, <2>2, BecomeKeepsType, BecomeKeepsOrder, SignalKeeps DEF MeshInv, NegotiationOK
  <1>4. ASSUME NEW i \in Participant, HandleOffer(i) PROVE MeshInv'
    \* An offer came from below.
    <2> DEFINE j == Head(meshSignals[i]).from
    <2>1. /\ meshSignals[i] # << >> /\ Head(meshSignals[i]).type = "offer"
          /\ Become(i, j, "answering") /\ meshSignals' = Took(i)
      BY <1>4 DEF HandleOffer, Incoming
    <2>2. j \in Participant /\ j < i
      BY <1>0, <2>1, TookKeeps DEF SignalRecord, Directed
    <2>3. "answering" \in EntryStates
      BY DEF EntryStates
    <2> HIDE DEF j
    <2> QED BY <1>0, <2>1, <2>2, <2>3, BecomeKeepsType, BecomeKeepsOrder, TookKeeps DEF MeshInv, NegotiationOK
  <1>5. ASSUME NEW i \in Participant, HandleAnswer(i) PROVE MeshInv'
    <2> DEFINE j == Head(meshSignals[i]).from
    <2>1. /\ meshSignals[i] # << >> /\ Head(meshSignals[i]).type = "answer" /\ meshSignals' = Took(i)
          /\ Become(i, j, "connected") \/ UNCHANGED meshPeers
      BY <1>5 DEF HandleAnswer, Incoming
    <2>2. j \in Participant /\ i < j
      BY <1>0, <2>1, TookKeeps DEF SignalRecord, Directed
    <2>3. "connected" \in EntryStates
      BY DEF EntryStates
    <2> HIDE DEF j
    <2>4. NoCrossedOffers' /\ meshPeers' \in [Participant -> [Participant -> EntryStates]]
      BY <1>0, <1>b, <2>1, <2>2, <2>3, BecomeKeepsType, BecomeKeepsOrder
    <2> QED BY <1>0, <2>1, <2>4, TookKeeps DEF MeshInv, NegotiationOK
  <1>6. ASSUME NEW i \in Participant, NEW j \in Participant, ChannelOpens(i, j) \/ ChannelCloses(i, j)
        PROVE  MeshInv'
    <2>1. PICK state \in {"open", "closed"} : Become(i, j, state) /\ UNCHANGED meshSignals
      BY <1>6 DEF ChannelOpens, ChannelCloses
    <2>2. state \in EntryStates /\ state \notin {"offering", "offered", "connected", "answering", "answered"}
      BY DEF EntryStates
    <2> QED BY <1>0, <1>a, <2>1, <2>2, BecomeKeepsType, BecomeKeepsOrder DEF MeshInv, NegotiationOK
  <1>7. ASSUME NEW i \in Participant, LeaveMesh(i) PROVE MeshInv'
    <2>1. /\ meshPeers' = [meshPeers EXCEPT ![i] = [j \in Participant |-> "none"]]
          /\ meshSignals' = [meshSignals EXCEPT ![i] = << >>]
      BY <1>7 DEF LeaveMesh
    <2>2. NegotiationOK' /\ NoCrossedOffers'
      BY <1>0, <2>1 DEF NegotiationOK, NoCrossedOffers, Entry, EntryStates
    <2>3. SignalsDirected'
      BY <1>0, <2>1 DEF NegotiationOK, SignalsDirected, Directed
    <2> QED BY <2>2, <2>3 DEF MeshInv
  <1>8. ASSUME NEW i \in Participant, Join(i) \/ SendEdit(i) \/ ReceiveEdit(i) PROVE MeshInv'
    <2>1. UNCHANGED <<meshPeers, meshSignals>>
      BY <1>8 DEF Join, SendEdit, ReceiveEdit
    <2> QED BY <1>a, <1>b, <2>1 DEF MeshInv, NegotiationOK
  <1>9. CASE UNCHANGED meshVars
    BY <1>9, <1>a, <1>b DEF meshVars, MeshInv, NegotiationOK
  <1> QED BY <1>1, <1>2, <1>3, <1>4, <1>5, <1>6, <1>7, <1>8, <1>9 DEF MeshNext, Negotiate

\* However joins, leaves, failures and the delays of promises and signals fall, two
\* participants never offer to each other, and nobody answers what was not
\* offered: that ids are compared the same way at both ends is enough
\* (webrtcService.ts, connectToPeers and handleSignal).
THEOREM OffersNeverCross == MeshSpec => []NoCrossedOffers
  <1>1. MeshSpec => []MeshInv
    BY MeshInvHolds, MeshInvStays, PTL DEF MeshSpec
  <1> QED BY <1>1, PTL DEF MeshInv

-----------------------------------------------------------------------------
(* Two that met nobody else.                                               *)

Met == meshRoom \cup meshGone

\* Entries and signals are about others who have been in the room.
Acquainted ==
    /\ IsFiniteSet(Met)
    /\ \A i, j \in Participant : Entry(i, j) # "none" => i # j /\ j \in Met
    /\ \A i \in Participant : \A n \in 1 .. Len(meshSignals[i]) : meshSignals[i][n].from \in Met

PairInv == MeshInv /\ meshRoom \subseteq Participant /\ Acquainted /\ TwoMissNothing

LEMMA PairInvHolds == MeshInit => PairInv
  <1> SUFFICES ASSUME MeshInit PROVE PairInv
    OBVIOUS
  <1>1. MeshInv
    BY MeshInvHolds
  <1>2. Met = {} /\ IsFiniteSet(Met)
    BY FS_EmptySet DEF MeshInit, Met
  <1>3. Acquainted
    BY <1>2 DEF MeshInit, Acquainted, Entry
  <1>4. TwoMissNothing /\ meshRoom \subseteq Participant
    BY DEF MeshInit, TwoMissNothing
  <1> QED BY <1>1, <1>3, <1>4 DEF PairInv

\* A step that makes no new acquaintance.
LEMMA BecomeKeepsAcquainted ==
    ASSUME NegotiationOK, Acquainted, NEW i \in Participant, NEW j \in Participant,
           NEW state \in EntryStates, Become(i, j, state), i # j, j \in Met, Met' = Met
    PROVE  \A k, l \in Participant : Entry(k, l)' # "none" => k # l /\ l \in Met'
  BY BecomeKeepsType DEF Acquainted

LEMMA SignalKeepsAcquainted ==
    ASSUME NegotiationOK, Acquainted, NEW i \in Participant, NEW j \in Participant, i \in Met, Met' = Met,
           NEW type \in {"offer", "answer"}, Signal(i, type, j)
    PROVE  \A k \in Participant : \A n \in 1 .. Len(meshSignals'[k]) : meshSignals'[k][n].from \in Met'
  <1> DEFINE signal == [type |-> type, from |-> i]
  <1> SUFFICES ASSUME NEW k \in Participant, NEW n \in 1 .. Len(meshSignals'[k])
               PROVE  meshSignals'[k][n].from \in Met
    OBVIOUS
  <1>1. CASE meshSignals'[k] = meshSignals[k]
    BY <1>1 DEF Acquainted
  <1>2. CASE meshSignals'[k] = Append(meshSignals[k], signal)
    <2>1. meshSignals[k] \in Seq(SignalRecord)
      BY DEF NegotiationOK
    <2>2. CASE n \in 1 .. Len(meshSignals[k])
      BY <1>2, <2>1, <2>2 DEF Acquainted
    <2>3. CASE n = Len(meshSignals[k]) + 1
      BY <1>2, <2>1, <2>3
    <2> QED BY <1>2, <2>1, <2>2, <2>3
  <1> QED BY <1>1, <1>2 DEF Signal, NegotiationOK

LEMMA TookKeepsAcquainted ==
    ASSUME NegotiationOK, Acquainted, NEW i \in Participant, meshSignals[i] # << >>,
           meshSignals' = Took(i), Met' = Met
    PROVE  /\ \A k \in Participant : \A n \in 1 .. Len(meshSignals'[k]) : meshSignals'[k][n].from \in Met'
           /\ Head(meshSignals[i]).from \in Met
  <1>1. meshSignals[i] \in Seq(SignalRecord)
    BY DEF NegotiationOK
  <1>2. /\ Head(meshSignals[i]) = meshSignals[i][1] /\ 1 \in 1 .. Len(meshSignals[i])
        /\ \A n \in 1 .. Len(Tail(meshSignals[i])) :
              Tail(meshSignals[i])[n] = meshSignals[i][n + 1] /\ n + 1 \in 1 .. Len(meshSignals[i])
    BY <1>1
  <1>3. \A k \in Participant : meshSignals'[k] = IF k = i THEN Tail(meshSignals[i]) ELSE meshSignals[k]
    BY DEF Took, NegotiationOK
  <1>4. ASSUME NEW k \in Participant, NEW n \in 1 .. Len(meshSignals'[k])
        PROVE  meshSignals'[k][n].from \in Met
    <2>1. CASE k = i
      <3>1. meshSignals'[k][n] = meshSignals[i][n + 1] /\ n + 1 \in 1 .. Len(meshSignals[i])
        BY <1>2, <1>3, <1>4, <2>1
      <3> QED BY <3>1 DEF Acquainted
    <2>2. CASE k # i
      <3>1. meshSignals'[k] = meshSignals[k]
        BY <1>3, <2>2
      <3> QED BY <1>4, <3>1 DEF Acquainted
    <2> QED BY <2>1, <2>2
  <1>5. Head(meshSignals[i]).from \in Met
    BY <1>2 DEF Acquainted
  <1> QED BY <1>4, <1>5

LEMMA StepsKeepAcquainted ==
    ASSUME MeshInv, meshRoom \subseteq Participant, Acquainted, MeshNext
    PROVE  meshRoom' \subseteq Participant /\ Acquainted' /\ Met \subseteq Met'
  <1>0. NegotiationOK /\ SignalsDirected /\ NoCrossedOffers
    BY DEF MeshInv
  <1>a. ASSUME UNCHANGED <<meshRoom, meshGone>>
        PROVE  meshRoom' \subseteq Participant /\ Met' = Met /\ IsFiniteSet(Met')
    BY <1>a DEF Met, Acquainted
  <1>b. ASSUME UNCHANGED <<meshRoom, meshGone, meshSignals>>
        PROVE  \A k \in Participant : \A n \in 1 .. Len(meshSignals'[k]) : meshSignals'[k][n].from \in Met'
    BY <1>a, <1>b DEF Acquainted
  <1>1. ASSUME NEW i \in Participant, NEW j \in Participant,
               StartAsInitiator(i, j) \/ ChannelOpens(i, j) \/ ChannelCloses(i, j)
        PROVE  Acquainted' /\ meshRoom' \subseteq Participant /\ Met \subseteq Met'
    <2>1. PICK state \in {"offering", "open", "closed"} : Become(i, j, state)
      BY <1>1 DEF StartAsInitiator, ChannelOpens, ChannelCloses
    <2>2. UNCHANGED <<meshRoom, meshGone, meshSignals>>
      BY <1>1 DEF StartAsInitiator, ChannelOpens, ChannelCloses
    <2>3. j \in Met /\ i # j
      <3>1. CASE StartAsInitiator(i, j)
        BY <3>1, ParticipantAssumption DEF StartAsInitiator, Initiates, Met
      <3>2. CASE ChannelOpens(i, j) \/ ChannelCloses(i, j)
        <4>1. Entry(i, j) # "none"
          BY <3>2 DEF ChannelOpens, ChannelCloses
        <4> QED BY <4>1 DEF Acquainted
      <3> QED BY <1>1, <3>1, <3>2
    <2>4. state \in EntryStates
      BY DEF EntryStates
    <2> QED BY <1>0, <1>a, <1>b, <2>1, <2>2, <2>3, <2>4, BecomeKeepsAcquainted DEF Acquainted
  <1>2. ASSUME NEW i \in Participant, NEW j \in Participant, OfferReady(i, j) \/ AnswerReady(i, j)
        PROVE  Acquainted' /\ meshRoom' \subseteq Participant /\ Met \subseteq Met'
    <2>1. /\ UNCHANGED <<meshRoom, meshGone>> /\ i \in Met /\ Entry(i, j) # "none"
          /\ \/ Become(i, j, "offered") /\ Signal(i, "offer", j)
             \/ Become(i, j, "answered") /\ Signal(i, "answer", j)
      BY <1>2 DEF OfferReady, AnswerReady, Met
    <2>2. j \in Met /\ i # j /\ {"offered", "answered"} \subseteq EntryStates
      BY <2>1 DEF Acquainted, EntryStates
    <2> QED BY <1>0, <1>a, <2>1, <2>2, BecomeKeepsAcquainted, SignalKeepsAcquainted DEF Acquainted
  <1>3. ASSUME NEW i \in Participant, HandleOffer(i) \/ HandleAnswer(i)
        PROVE  Acquainted' /\ meshRoom' \subseteq Participant /\ Met \subseteq Met'
    <2> DEFINE j == Head(meshSignals[i]).from
    <2>1. /\ UNCHANGED <<meshRoom, meshGone>> /\ meshSignals[i] # << >> /\ meshSignals' = Took(i)
          /\ Become(i, j, "answering") \/ Become(i, j, "connected") \/ UNCHANGED meshPeers
      BY <1>3 DEF HandleOffer, HandleAnswer, Incoming
    <2>2. j \in Participant /\ i # j /\ j \in Met
      <3>1. Head(meshSignals[i]) \in SignalRecord /\ Directed(Head(meshSignals[i]), i)
        BY <1>0, <2>1, TookKeeps
      <3>2. j \in Met
        BY <1>0, <1>a, <2>1, TookKeepsAcquainted
      <3>3. i \in Nat
        BY ParticipantAssumption
      <3> QED BY <3>1, <3>2, <3>3 DEF SignalRecord, Directed
    <2>3. {"answering", "connected"} \subseteq EntryStates
      BY DEF EntryStates
    <2> HIDE DEF j
    <2>4. \A k, l \in Participant : Entry(k, l)' # "none" => k # l /\ l \in Met'
      <3>1. CASE UNCHANGED meshPeers
        BY <1>a, <2>1, <3>1 DEF Acquainted, Entry
      <3> QED BY <1>0, <1>a, <2>1, <2>2, <2>3, <3>1, BecomeKeepsAcquainted
    <2>5. \A k \in Participant : \A n \in 1 .. Len(meshSignals'[k]) : meshSignals'[k][n].from \in Met'
      BY <1>0, <1>a, <2>1, TookKeepsAcquainted
    <2> QED BY <1>a, <2>1, <2>4, <2>5 DEF Acquainted
  <1>4. ASSUME NEW i \in Participant, Join(i)
        PROVE  Acquainted' /\ meshRoom' \subseteq Participant /\ Met \subseteq Met'
    <2>1. /\ meshRoom' = meshRoom \cup {i} /\ Met' = Met \cup {i}
          /\ UNCHANGED <<meshPeers, meshSignals>>
      BY <1>4 DEF Join, Met
    <2>2. IsFiniteSet(Met')
      BY <2>1, FS_AddElement DEF Acquainted
    <2> QED BY <2>1, <2>2 DEF Acquainted, Entry
  <1>5. ASSUME NEW i \in Participant, LeaveMesh(i)
        PROVE  Acquainted' /\ meshRoom' \subseteq Participant /\ Met \subseteq Met'
    <2>1. /\ meshRoom' = meshRoom \ {i} /\ Met' = Met
          /\ meshPeers' = [meshPeers EXCEPT ![i] = [j \in Participant |-> "none"]]
          /\ meshSignals' = [meshSignals EXCEPT ![i] = << >>]
      BY <1>5 DEF LeaveMesh, Met
    <2> QED BY <1>0, <2>1 DEF Acquainted, Entry, NegotiationOK
  <1>6. ASSUME NEW i \in Participant, SendEdit(i) \/ ReceiveEdit(i)
        PROVE  Acquainted' /\ meshRoom' \subseteq Participant /\ Met \subseteq Met'
    <2>1. UNCHANGED <<meshRoom, meshGone, meshPeers, meshSignals>>
      BY <1>6 DEF SendEdit, ReceiveEdit
    <2> QED BY <1>a, <1>b, <2>1 DEF Acquainted, Entry
  <1> QED BY <1>1, <1>2, <1>3, <1>4, <1>5, <1>6 DEF MeshNext, Negotiate

\* Of three who met there are more than two.
LEMMA ThreeAreMore ==
    ASSUME NEW S, IsFiniteSet(S), NEW a \in S, NEW b \in S, NEW c \in S, a # b, a # c, b # c
    PROVE  Cardinality(S) > 2
  <1>1. /\ IsFiniteSet({}) /\ Cardinality({}) = 0
        /\ IsFiniteSet({a}) /\ Cardinality({a}) = 1
    BY FS_EmptySet, FS_Singleton
  <1>2. IsFiniteSet({a, b}) /\ Cardinality({a, b}) = 2
    <2>1. {a, b} = {a} \cup {b}
      OBVIOUS
    <2>2. b \notin {a} /\ IsFiniteSet({a} \cup {b})
      BY <1>1, FS_AddElement
    <2>3. Cardinality({a} \cup {b}) = Cardinality({a}) + 1
      BY <1>1, <2>2, FS_AddElement
    <2> QED BY <1>1, <2>1, <2>2, <2>3
  <1>3. Cardinality({a, b, c}) = 3
    <2>1. {a, b, c} = {a, b} \cup {c}
      OBVIOUS
    <2>2. c \notin {a, b}
      OBVIOUS
    <2>3. Cardinality({a, b} \cup {c}) = Cardinality({a, b}) + 1
      BY <1>2, <2>2, FS_AddElement
    <2> QED BY <1>2, <2>1, <2>3
  <1>4. Cardinality({a, b, c}) <= Cardinality(S) /\ Cardinality(S) \in Nat
    BY FS_Subset, FS_CardinalityType
  <1> QED BY <1>3, <1>4

LEMMA PairInvStays == PairInv /\ [MeshNext]_meshVars => PairInv'
  <1> SUFFICES ASSUME PairInv, [MeshNext]_meshVars PROVE PairInv'
    OBVIOUS
  <1>0. MeshInv /\ meshRoom \subseteq Participant /\ Acquainted /\ TwoMissNothing
    BY DEF PairInv
  <1>1. MeshInv'
    BY <1>0, MeshInvStays
  <1>2. CASE UNCHANGED meshVars
    BY <1>0, <1>1, <1>2 DEF PairInv, meshVars, meshEditVars, Acquainted, TwoMissNothing, Met, Entry
  <1>3. CASE MeshNext
    <2>1. meshRoom' \subseteq Participant /\ Acquainted' /\ Met \subseteq Met'
      BY <1>0, <1>3, StepsKeepAcquainted
    <2>2. ASSUME Cardinality(Met') <= 2 PROVE Cardinality(Met) <= 2 /\ meshMissed = {}
      <3>1. IsFiniteSet(Met') /\ IsFiniteSet(Met)
        BY <1>0, <2>1 DEF Acquainted
      <3>2. Cardinality(Met) <= Cardinality(Met') /\ Cardinality(Met) \in Nat /\ Cardinality(Met') \in Nat
        BY <2>1, <3>1, FS_Subset, FS_CardinalityType
      <3> QED BY <1>0, <2>2, <3>2 DEF TwoMissNothing, Met
    <2>3. ASSUME NEW i \in Participant, SendEdit(i), Cardinality(Met') <= 2 PROVE meshMissed' = {}
      \* Whom the open channel does not reach would be a third.
      <3>1. UNCHANGED <<meshRoom, meshGone>> /\ i \in meshRoom
        BY <2>3 DEF SendEdit
      <3>2. (meshRoom \ {i}) \ (IF ByMesh(i) THEN Open(i) ELSE meshRoom \ {i}) = {}
        <4> SUFFICES ASSUME ByMesh(i), NEW j \in meshRoom \ {i}, j \notin Open(i) PROVE FALSE
          OBVIOUS
        <4>1. PICK k \in Open(i) : TRUE
          BY DEF ByMesh
        <4>2. k \in Met /\ k # i /\ k # j
          BY <1>0, <4>1 DEF Open, Acquainted
        <4>3. i \in Met /\ j \in Met /\ IsFiniteSet(Met) /\ i # j
          BY <1>0, <3>1 DEF Met, Acquainted
        <4>4. Cardinality(Met) > 2 /\ Cardinality(Met) \in Nat
          BY <4>2, <4>3, ThreeAreMore, FS_CardinalityType
        <4> QED BY <2>2, <2>3, <4>4
      <3>3. meshMissed' = meshMissed \cup
              {<<[from |-> i, number |-> meshEdits[i] + 1], j>> :
                  j \in (meshRoom \ {i}) \ (IF ByMesh(i) THEN Open(i) ELSE meshRoom \ {i})}
        BY <2>3 DEF SendEdit
      <3> QED BY <2>2, <2>3, <3>2, <3>3
    <2>4. UNCHANGED meshMissed \/ \E i \in Participant : SendEdit(i)
      BY <1>3 DEF MeshNext, Negotiate, Join, LeaveMesh, ReceiveEdit, ChannelCloses, HandleOffer, HandleAnswer,
                  StartAsInitiator, OfferReady, AnswerReady, ChannelOpens, meshEditVars
    <2>5. TwoMissNothing'
      <3>1. ASSUME Cardinality(Met') <= 2 PROVE meshMissed' = {}
        BY <2>2, <2>3, <2>4, <3>1
      <3> QED BY <3>1 DEF TwoMissNothing, Met
    <2> QED BY <1>1, <2>1, <2>5 DEF PairInv
  <1> QED BY <1>2, <1>3

\* While no third has ever been in the room, no edit misses the other, whichever
\* way it goes and however channels open, fail and come again
\* (socketManager.ts, send).
THEOREM TwoLoseNothing == MeshSpec => []TwoMissNothing
  <1>1. MeshSpec => []PairInv
    BY PairInvHolds, PairInvStays, PTL DEF MeshSpec
  <1> QED BY <1>1, PTL DEF PairInv

-----------------------------------------------------------------------------
(* Queues.                                                                 *)

In(s) == {s[i] : i \in 1 .. Len(s)}
Distinct(s) == \A i, j \in 1 .. Len(s) : i # j => s[i] # s[j]

LEMMA QueueAppended ==
    ASSUME NEW S, NEW s \in Seq(S), NEW x \in S
    PROVE  /\ Append(s, x) \in Seq(S) /\ In(Append(s, x)) = In(s) \cup {x}
           /\ Distinct(s) /\ x \notin In(s) => Distinct(Append(s, x))
  <1> DEFINE t == Append(s, x)
  <1>1. /\ t \in Seq(S) /\ Len(t) = Len(s) + 1 /\ Len(s) \in Nat
        /\ \A i \in 1 .. Len(s) : t[i] = s[i]
        /\ t[Len(s) + 1] = x
    OBVIOUS
  <1> HIDE DEF t
  <1>2. \A i \in 1 .. Len(t) : i \in 1 .. Len(s) \/ i = Len(s) + 1
    BY <1>1
  <1>3. In(t) = In(s) \cup {x}
    <2>1. ASSUME NEW y \in In(t) PROVE y \in In(s) \cup {x}
      BY <1>1, <1>2, <2>1 DEF In
    <2>2. ASSUME NEW y \in In(s) \cup {x} PROVE y \in In(t)
      <3>1. \A i \in 1 .. Len(s) : i \in 1 .. Len(t)
        BY <1>1
      <3>2. Len(s) + 1 \in 1 .. Len(t)
        BY <1>1
      <3> QED BY <1>1, <2>2, <3>1, <3>2 DEF In
    <2> QED BY <2>1, <2>2
  <1>4. ASSUME Distinct(s), x \notin In(s), NEW i \in 1 .. Len(t), NEW j \in 1 .. Len(t), i # j
        PROVE  t[i] # t[j]
    BY <1>1, <1>2, <1>4 DEF In, Distinct
  <1> QED BY <1>1, <1>3, <1>4 DEF t, Distinct

LEMMA QueueTaken ==
    ASSUME NEW S, NEW s \in Seq(S), s # << >>
    PROVE  /\ Tail(s) \in Seq(S) /\ Head(s) \in In(s) /\ Head(s) \in S
           /\ In(Tail(s)) \subseteq In(s)
           /\ Distinct(s) => Distinct(Tail(s)) /\ Head(s) \notin In(Tail(s))
           /\ \A x \in In(s) : x = Head(s) \/ x \in In(Tail(s))
  <1> DEFINE t == Tail(s)
  <1>1. /\ t \in Seq(S) /\ Len(t) = Len(s) - 1 /\ Len(s) \in Nat /\ Len(s) >= 1
        /\ \A i \in 1 .. Len(t) : t[i] = s[i + 1] /\ i + 1 \in 1 .. Len(s)
        /\ Head(s) = s[1] /\ 1 \in 1 .. Len(s) /\ Head(s) \in S
    OBVIOUS
  <1> HIDE DEF t
  <1>2. Head(s) \in In(s) /\ In(t) \subseteq In(s)
    BY <1>1 DEF In
  <1>3. ASSUME Distinct(s), NEW i \in 1 .. Len(t), NEW j \in 1 .. Len(t), i # j PROVE t[i] # t[j]
    <2>1. i + 1 # j + 1
      BY <1>1, <1>3
    <2> QED BY <1>1, <1>3, <2>1 DEF Distinct
  <1>4. ASSUME Distinct(s), NEW i \in 1 .. Len(t) PROVE t[i] # Head(s)
    <2>1. i + 1 # 1
      BY <1>1
    <2> QED BY <1>1, <1>4, <2>1 DEF Distinct
  <1>5. ASSUME NEW x \in In(s) PROVE x = Head(s) \/ x \in In(t)
    <2>1. PICK i \in 1 .. Len(s) : x = s[i]
      BY DEF In
    <2>2. CASE i = 1
      BY <1>1, <2>1, <2>2
    <2>3. CASE i # 1
      <3>1. i - 1 \in 1 .. Len(t) /\ t[i - 1] = s[i]
        BY <1>1, <2>3
      <3> QED BY <2>1, <3>1 DEF In
    <2> QED BY <2>2, <2>3
  <1>6. Distinct(s) => Distinct(t) /\ Head(s) \notin In(t)
    BY <1>3, <1>4 DEF Distinct, In
  <1> QED BY <1>1, <1>2, <1>5, <1>6 DEF t

-----------------------------------------------------------------------------
(* PeerMesh: what comes, comes once.                                       *)

EditMade == [from : Participant, number : Nat]
EditsTyped ==
    /\ meshEdits \in [Participant -> Nat]
    /\ meshDirect \in [Participant -> [Participant -> Seq(EditMade)]]
    /\ meshRelayed \in [Participant -> Seq(EditMade)]
    /\ meshGot \in [Participant -> Seq(EditMade)]

\* Of what has come to i and what is under way to it, no edit is there twice: an
\* edit goes over the node or over the sender's own channel, and once.
EachOnce(i) ==
    /\ Distinct(meshGot[i]) /\ Distinct(meshRelayed[i]) /\ In(meshGot[i]) \cap In(meshRelayed[i]) = {}
    /\ \A j \in Participant :
          /\ Distinct(meshDirect[j][i])
          /\ In(meshDirect[j][i]) \cap (In(meshGot[i]) \cup In(meshRelayed[i])) = {}
          /\ \A e \in In(meshDirect[j][i]) : e.from = j

\* Only what has been made is anywhere.
AllMade(i) ==
    /\ \A e \in In(meshGot[i]) \cup In(meshRelayed[i]) : e.number <= meshEdits[e.from]
    /\ \A j \in Participant : \A e \in In(meshDirect[j][i]) : e.number <= meshEdits[e.from]

OnceInv == EditsTyped /\ \A i \in Participant : EachOnce(i) /\ AllMade(i)

LEMMA OnceInvHolds == MeshInit => OnceInv
  <1> SUFFICES ASSUME MeshInit PROVE OnceInv
    OBVIOUS
  <1>1. Distinct(<< >>) /\ In(<< >>) = {}
    BY DEF Distinct, In
  <1>2. EditsTyped
    BY DEF MeshInit, EditsTyped
  <1>3. ASSUME NEW i \in Participant PROVE EachOnce(i) /\ AllMade(i)
    <2>1. /\ meshGot[i] = << >> /\ meshRelayed[i] = << >>
          /\ \A j \in Participant : meshDirect[j][i] = << >>
      BY DEF MeshInit
    <2> QED BY <1>1, <2>1 DEF EachOnce, AllMade
  <1> QED BY <1>2, <1>3 DEF OnceInv

\* An edit that is made goes one way to each, or no way.
LEMMA SendKeepsOnce ==
    ASSUME OnceInv, NEW i \in Participant, SendEdit(i)
    PROVE  OnceInv'
  <1> DEFINE edit == [from |-> i, number |-> meshEdits[i] + 1]
  <1>0. EditsTyped /\ meshEdits[i] \in Nat
    BY DEF OnceInv, EditsTyped
  <1>1. edit \in EditMade /\ edit.from = i /\ edit.number = meshEdits[i] + 1
    BY <1>0 DEF EditMade
  <1>2. /\ meshEdits' = [meshEdits EXCEPT ![i] = @ + 1]
        /\ meshDirect' = [meshDirect EXCEPT ![i] = [j \in Participant |->
               IF ByMesh(i) /\ j \in Open(i) /\ Entry(j, i) # "none" THEN Append(@[j], edit) ELSE @[j]]]
        /\ meshRelayed' = [j \in Participant |->
               IF ~ByMesh(i) /\ j \in meshRoom \ {i} THEN Append(meshRelayed[j], edit) ELSE meshRelayed[j]]
        /\ UNCHANGED meshGot
    BY DEF SendEdit, AlsoRelayed
  <1>3. ASSUME NEW k \in Participant
        PROVE  /\ meshGot'[k] = meshGot[k]
               /\ \A j \in Participant : j # i => meshDirect'[j][k] = meshDirect[j][k]
               /\ \/ meshRelayed'[k] = Append(meshRelayed[k], edit) /\ meshDirect'[i][k] = meshDirect[i][k]
                  \/ meshRelayed'[k] = meshRelayed[k] /\ meshDirect'[i][k] = Append(meshDirect[i][k], edit)
                  \/ meshRelayed'[k] = meshRelayed[k] /\ meshDirect'[i][k] = meshDirect[i][k]
    BY <1>0, <1>2 DEF EditsTyped
  <1>4. /\ meshEdits' \in [Participant -> Nat] /\ meshEdits'[i] = meshEdits[i] + 1
        /\ \A j \in Participant : meshEdits'[j] >= meshEdits[j] /\ meshEdits'[j] \in Nat /\ meshEdits[j] \in Nat
    BY <1>0, <1>2 DEF EditsTyped
  <1> HIDE DEF edit
  <1>5. ASSUME NEW k \in Participant
        PROVE  /\ meshRelayed'[k] \in Seq(EditMade) /\ meshDirect'[i][k] \in Seq(EditMade)
               /\ EachOnce(k)' /\ AllMade(k)'
    <2>1. /\ meshGot[k] \in Seq(EditMade) /\ meshRelayed[k] \in Seq(EditMade)
          /\ \A j \in Participant : meshDirect[j][k] \in Seq(EditMade)
      BY <1>0 DEF EditsTyped
    <2>2. EachOnce(k) /\ AllMade(k)
      BY DEF OnceInv
    <2>3. /\ \A S : \A s \in Seq(S) : In(s) \subseteq S
      BY DEF In
    <2>4. /\ edit \notin In(meshGot[k]) /\ edit \notin In(meshRelayed[k])
          /\ \A j \in Participant : edit \notin In(meshDirect[j][k])
      BY <1>0, <1>1, <2>2 DEF AllMade
    <2>5. /\ In(meshGot[k]) \subseteq EditMade /\ In(meshRelayed[k]) \subseteq EditMade
          /\ \A j \in Participant : In(meshDirect[j][k]) \subseteq EditMade
      BY <2>1, <2>3, Zenon
    <2>6. \A e \in EditMade : e.number \in Nat /\ e.from \in Participant
      BY DEF EditMade
    <2>7. \A e \in EditMade : e.number <= meshEdits[e.from] => e.number <= meshEdits'[e.from]
      BY <1>4, <2>6
    <2>8. edit.number <= meshEdits'[edit.from]
      BY <1>0, <1>1, <1>4
    <2>9. CASE meshRelayed'[k] = Append(meshRelayed[k], edit) /\ meshDirect'[i][k] = meshDirect[i][k]
      <3>1. /\ meshRelayed'[k] \in Seq(EditMade) /\ In(meshRelayed'[k]) = In(meshRelayed[k]) \cup {edit}
            /\ Distinct(meshRelayed'[k])
        BY <1>1, <2>1, <2>2, <2>4, <2>9, QueueAppended DEF EachOnce
      <3>2. \A j \in Participant : meshDirect'[j][k] = meshDirect[j][k]
        BY <1>3, <2>9
      <3>3. EachOnce(k)'
        BY <1>3, <2>2, <2>4, <3>1, <3>2 DEF EachOnce
      <3>4. AllMade(k)'
        BY <1>3, <2>2, <2>5, <2>7, <2>8, <3>1, <3>2 DEF AllMade
      <3> QED BY <2>1, <3>1, <3>2, <3>3, <3>4
    <2>10. CASE meshRelayed'[k] = meshRelayed[k] /\ meshDirect'[i][k] = Append(meshDirect[i][k], edit)
      <3>1. /\ meshDirect'[i][k] \in Seq(EditMade) /\ In(meshDirect'[i][k]) = In(meshDirect[i][k]) \cup {edit}
            /\ Distinct(meshDirect'[i][k])
        BY <1>1, <2>1, <2>2, <2>4, <2>10, QueueAppended DEF EachOnce
      <3>2. \A j \in Participant : j # i => meshDirect'[j][k] = meshDirect[j][k]
        BY <1>3
      <3>3. EachOnce(k)'
        <4>1. /\ meshGot'[k] = meshGot[k] /\ meshRelayed'[k] = meshRelayed[k]
              /\ Distinct(meshGot[k]) /\ Distinct(meshRelayed[k])
              /\ In(meshGot[k]) \cap In(meshRelayed[k]) = {}
          BY <1>3, <2>2, <2>10 DEF EachOnce
        <4>2. ASSUME NEW j \in Participant
              PROVE  /\ Distinct(meshDirect'[j][k])
                     /\ In(meshDirect'[j][k]) \cap (In(meshGot[k]) \cup In(meshRelayed[k])) = {}
                     /\ \A e \in In(meshDirect'[j][k]) : e.from = j
          <5>1. CASE j = i
            BY <1>1, <2>2, <2>4, <3>1, <5>1 DEF EachOnce
          <5>2. CASE j # i
            BY <2>2, <3>2, <5>2 DEF EachOnce
          <5> QED BY <5>1, <5>2
        <4> QED BY <4>1, <4>2 DEF EachOnce
      <3>4. AllMade(k)'
        BY <1>3, <2>2, <2>5, <2>7, <2>8, <2>10, <3>1, <3>2 DEF AllMade
      <3> QED BY <2>1, <2>10, <3>1, <3>3, <3>4
    <2>11. CASE meshRelayed'[k] = meshRelayed[k] /\ meshDirect'[i][k] = meshDirect[i][k]
      <3>1. \A j \in Participant : meshDirect'[j][k] = meshDirect[j][k]
        BY <1>3, <2>11
      <3>2. EachOnce(k)'
        BY <1>3, <2>2, <2>11, <3>1 DEF EachOnce
      <3>3. AllMade(k)'
        BY <1>3, <2>2, <2>5, <2>7, <2>11, <3>1 DEF AllMade
      <3> QED BY <2>1, <2>11, <3>2, <3>3
    <2> QED BY <1>3, <2>9, <2>10, <2>11
  <1>6. EditsTyped'
    <2>1. meshRelayed' \in [Participant -> Seq(EditMade)]
      <3>1. \A k \in Participant : meshRelayed'[k] \in Seq(EditMade)
        BY <1>5
      <3> QED BY <1>2, <3>1
    <2>2. meshDirect' \in [Participant -> [Participant -> Seq(EditMade)]]
      <3>1. \A k \in Participant : meshDirect'[i][k] \in Seq(EditMade)
        BY <1>5
      <3>2. /\ DOMAIN meshDirect' = Participant
            /\ meshDirect' = [j \in Participant |-> meshDirect'[j]]
            /\ \A j \in Participant : j # i => meshDirect'[j] = meshDirect[j]
            /\ meshDirect'[i] = [j \in Participant |-> meshDirect'[i][j]]
        BY <1>0, <1>2 DEF EditsTyped
      <3>3. meshDirect'[i] \in [Participant -> Seq(EditMade)]
        BY <3>1, <3>2
      <3> QED BY <1>0, <3>2, <3>3 DEF EditsTyped
    <2> QED BY <1>0, <1>2, <1>4, <2>1, <2>2 DEF EditsTyped
  <1> QED BY <1>5, <1>6 DEF OnceInv

\* An edit that arrives leaves the way it came.
LEMMA ReceiveKeepsOnce ==
    ASSUME OnceInv, NEW i \in Participant, ReceiveEdit(i)
    PROVE  OnceInv'
  <1>0. EditsTyped /\ EachOnce(i) /\ AllMade(i) /\ UNCHANGED meshEdits
    BY DEF OnceInv, ReceiveEdit
  <1>1. /\ meshGot[i] \in Seq(EditMade) /\ meshRelayed[i] \in Seq(EditMade)
        /\ \A j \in Participant : meshDirect[j][i] \in Seq(EditMade)
    BY <1>0 DEF EditsTyped
  <1>2. CASE /\ meshRelayed[i] # << >>
             /\ meshGot' = [meshGot EXCEPT ![i] = Append(@, Head(meshRelayed[i]))]
             /\ meshRelayed' = [meshRelayed EXCEPT ![i] = Tail(@)] /\ UNCHANGED meshDirect
    <2> DEFINE e == Head(meshRelayed[i])
    <2>1. /\ e \in EditMade /\ e \in In(meshRelayed[i]) /\ e \notin In(Tail(meshRelayed[i]))
          /\ Tail(meshRelayed[i]) \in Seq(EditMade) /\ Distinct(Tail(meshRelayed[i]))
          /\ In(Tail(meshRelayed[i])) \subseteq In(meshRelayed[i])
      BY <1>0, <1>1, <1>2, QueueTaken DEF EachOnce
    <2>2. /\ Append(meshGot[i], e) \in Seq(EditMade) /\ Distinct(Append(meshGot[i], e))
          /\ In(Append(meshGot[i], e)) = In(meshGot[i]) \cup {e}
      <3>1. e \notin In(meshGot[i]) /\ Distinct(meshGot[i])
        BY <1>0, <2>1 DEF EachOnce
      <3> HIDE DEF e
      <3> QED BY <1>1, <2>1, <3>1, QueueAppended
    <2>3. /\ meshGot'[i] = Append(meshGot[i], e) /\ meshRelayed'[i] = Tail(meshRelayed[i])
          /\ meshDirect' = meshDirect
          /\ \A k \in Participant : k # i => meshGot'[k] = meshGot[k] /\ meshRelayed'[k] = meshRelayed[k]
      BY <1>0, <1>2 DEF EditsTyped
    <2>4. EditsTyped'
      <3>1. /\ meshGot' = [meshGot EXCEPT ![i] = Append(meshGot[i], e)]
            /\ meshRelayed' = [meshRelayed EXCEPT ![i] = Tail(meshRelayed[i])]
        BY <1>2
      <3> HIDE DEF e
      <3> QED BY <1>0, <2>1, <2>2, <2>3, <3>1 DEF EditsTyped
    <2> HIDE DEF e
    <2>5. EachOnce(i)' /\ AllMade(i)'
      BY <1>0, <2>1, <2>2, <2>3 DEF EachOnce, AllMade
    <2>6. ASSUME NEW k \in Participant, k # i PROVE EachOnce(k)' /\ AllMade(k)'
      <3>1. EachOnce(k) /\ AllMade(k)
        BY DEF OnceInv
      <3>2. meshGot'[k] = meshGot[k] /\ meshRelayed'[k] = meshRelayed[k]
        BY <2>3, <2>6
      <3> QED BY <1>0, <2>3, <3>1, <3>2 DEF EachOnce, AllMade
    <2> QED BY <2>4, <2>5, <2>6 DEF OnceInv
  <1>3. ASSUME NEW j \in Participant, meshDirect[j][i] # << >>,
               meshGot' = [meshGot EXCEPT ![i] = Append(@, Head(meshDirect[j][i]))],
               meshDirect' = [meshDirect EXCEPT ![j][i] = Tail(@)], UNCHANGED meshRelayed
        PROVE  OnceInv'
    <2> DEFINE e == Head(meshDirect[j][i])
    <2>1. /\ e \in EditMade /\ e \in In(meshDirect[j][i]) /\ e \notin In(Tail(meshDirect[j][i]))
          /\ Tail(meshDirect[j][i]) \in Seq(EditMade) /\ Distinct(Tail(meshDirect[j][i]))
          /\ In(Tail(meshDirect[j][i])) \subseteq In(meshDirect[j][i])
      BY <1>0, <1>1, <1>3, QueueTaken DEF EachOnce
    <2>2. /\ Append(meshGot[i], e) \in Seq(EditMade) /\ Distinct(Append(meshGot[i], e))
          /\ In(Append(meshGot[i], e)) = In(meshGot[i]) \cup {e}
      <3>1. e \notin In(meshGot[i]) /\ Distinct(meshGot[i])
        BY <1>0, <2>1 DEF EachOnce
      <3> HIDE DEF e
      <3> QED BY <1>1, <2>1, <3>1, QueueAppended
    <2>3. /\ meshGot'[i] = Append(meshGot[i], e) /\ meshDirect'[j][i] = Tail(meshDirect[j][i])
          /\ meshRelayed' = meshRelayed
          /\ \A k \in Participant : k # i => meshGot'[k] = meshGot[k]
          /\ \A k, l \in Participant : k # i \/ l # j => meshDirect'[l][k] = meshDirect[l][k]
      BY <1>0, <1>3 DEF EditsTyped
    <2>4. EditsTyped'
      <3>1. /\ meshGot' = [meshGot EXCEPT ![i] = Append(meshGot[i], e)]
            /\ meshDirect' = [meshDirect EXCEPT ![j] = [meshDirect[j] EXCEPT ![i] = Tail(meshDirect[j][i])]]
        BY <1>3
      <3>2. meshDirect[j] \in [Participant -> Seq(EditMade)]
        BY <1>0 DEF EditsTyped
      <3>3. [meshDirect[j] EXCEPT ![i] = Tail(meshDirect[j][i])] \in [Participant -> Seq(EditMade)]
        BY <2>1, <3>2
      <3> HIDE DEF e
      <3> QED BY <1>0, <2>2, <2>3, <3>1, <3>3 DEF EditsTyped
    <2> HIDE DEF e
    <2>5. EachOnce(i)' /\ AllMade(i)'
      \* What else is under way is from somebody else.
      <3>1. \A l \in Participant : e \in In(meshDirect[l][i]) => l = j
        BY <1>0, <2>1 DEF EachOnce
      <3>2. \A l \in Participant : l # j => meshDirect'[l][i] = meshDirect[l][i]
        BY <2>3
      <3>3. EachOnce(i)'
        BY <1>0, <2>1, <2>2, <2>3, <3>1, <3>2 DEF EachOnce
      <3>4. AllMade(i)'
        BY <1>0, <2>1, <2>2, <2>3, <3>2 DEF AllMade
      <3> QED BY <3>3, <3>4
    <2>6. ASSUME NEW k \in Participant, k # i PROVE EachOnce(k)' /\ AllMade(k)'
      <3>1. EachOnce(k) /\ AllMade(k)
        BY DEF OnceInv
      <3>2. meshGot'[k] = meshGot[k] /\ \A l \in Participant : meshDirect'[l][k] = meshDirect[l][k]
        BY <2>3, <2>6
      <3> QED BY <1>0, <2>3, <3>1, <3>2 DEF EachOnce, AllMade
    <2> QED BY <2>4, <2>5, <2>6 DEF OnceInv
  <1> QED BY <1>2, <1>3 DEF ReceiveEdit

\* A way that is lost loses what was on it.
LEMMA LossKeepsOnce ==
    ASSUME OnceInv, UNCHANGED <<meshEdits, meshGot>>,
           meshDirect' \in [Participant -> [Participant -> Seq(EditMade)]],
           meshRelayed' \in [Participant -> Seq(EditMade)],
           \A i, j \in Participant : meshDirect'[j][i] \in {meshDirect[j][i], << >>},
           \A i \in Participant : meshRelayed'[i] \in {meshRelayed[i], << >>}
    PROVE  OnceInv'
  <1>1. Distinct(<< >>) /\ In(<< >>) = {}
    BY DEF Distinct, In
  <1>2. EditsTyped'
    BY DEF OnceInv, EditsTyped
  <1>3. ASSUME NEW i \in Participant PROVE EachOnce(i)' /\ AllMade(i)'
    <2>1. EachOnce(i) /\ AllMade(i)
      BY DEF OnceInv
    <2>2. /\ In(meshRelayed'[i]) \subseteq In(meshRelayed[i])
          /\ Distinct(meshRelayed[i]) => Distinct(meshRelayed'[i])
      BY <1>1
    <2>3. \A j \in Participant : /\ In(meshDirect'[j][i]) \subseteq In(meshDirect[j][i])
                                 /\ Distinct(meshDirect[j][i]) => Distinct(meshDirect'[j][i])
      BY <1>1
    <2>4. EachOnce(i)'
      BY <2>1, <2>2, <2>3 DEF EachOnce
    <2>5. AllMade(i)'
      BY <2>1, <2>2, <2>3 DEF AllMade
    <2> QED BY <2>4, <2>5
  <1> QED BY <1>2, <1>3 DEF OnceInv

LEMMA OnceInvStays == OnceInv /\ [MeshNext]_meshVars => OnceInv'
  <1> SUFFICES ASSUME OnceInv, [MeshNext]_meshVars PROVE OnceInv'
    OBVIOUS
  <1>0. EditsTyped
    BY DEF OnceInv
  <1>1. ASSUME NEW i \in Participant, NEW j \in Participant, ChannelCloses(i, j) PROVE OnceInv'
    <2>1. /\ meshDirect' = [meshDirect EXCEPT ![j][i] = << >>]
          /\ UNCHANGED <<meshEdits, meshRelayed, meshGot>>
      BY <1>1 DEF ChannelCloses
    <2>2. << >> \in Seq(EditMade)
      OBVIOUS
    <2>3. meshDirect' \in [Participant -> [Participant -> Seq(EditMade)]]
      BY <1>0, <2>1, <2>2 DEF EditsTyped
    <2>4. \A k, l \in Participant : meshDirect'[l][k] \in {meshDirect[l][k], << >>}
      BY <1>0, <2>1 DEF EditsTyped
    <2>5. meshRelayed' \in [Participant -> Seq(EditMade)] /\ \A k \in Participant : meshRelayed'[k] \in {meshRelayed[k], << >>}
      BY <1>0, <2>1 DEF EditsTyped
    <2> QED BY <2>1, <2>3, <2>4, <2>5, LossKeepsOnce
  <1>2. ASSUME NEW i \in Participant, LeaveMesh(i) PROVE OnceInv'
    <2>1. /\ meshDirect' = [j \in Participant |-> [meshDirect[j] EXCEPT ![i] = << >>]]
          /\ meshRelayed' = [meshRelayed EXCEPT ![i] = << >>]
          /\ UNCHANGED <<meshEdits, meshGot>>
      BY <1>2 DEF LeaveMesh
    <2>2. << >> \in Seq(EditMade)
      OBVIOUS
    <2>3. meshDirect' \in [Participant -> [Participant -> Seq(EditMade)]]
      BY <1>0, <2>1, <2>2 DEF EditsTyped
    <2>4. \A k, l \in Participant : meshDirect'[l][k] \in {meshDirect[l][k], << >>}
      BY <1>0, <2>1 DEF EditsTyped
    <2>5. meshRelayed' \in [Participant -> Seq(EditMade)] /\ \A k \in Participant : meshRelayed'[k] \in {meshRelayed[k], << >>}
      BY <1>0, <2>1, <2>2 DEF EditsTyped
    <2> QED BY <2>1, <2>3, <2>4, <2>5, LossKeepsOnce
  <1>3. ASSUME UNCHANGED meshEditVars PROVE OnceInv'
    <2>1. UNCHANGED <<meshEdits, meshDirect, meshRelayed, meshGot>>
      BY <1>3 DEF meshEditVars
    <2>2. \A i, j \in Participant : meshDirect'[j][i] \in {meshDirect[j][i], << >>}
      BY <2>1
    <2>3. \A i \in Participant : meshRelayed'[i] \in {meshRelayed[i], << >>}
      BY <2>1
    <2> QED BY <1>0, <2>1, <2>2, <2>3, LossKeepsOnce DEF EditsTyped
  <1>4. CASE MeshNext
    <2>1. \/ UNCHANGED meshEditVars
          \/ \E i \in Participant : SendEdit(i) \/ ReceiveEdit(i) \/ LeaveMesh(i)
                                    \/ \E j \in Participant : ChannelCloses(i, j)
      BY <1>4 DEF MeshNext, Negotiate, Join, HandleOffer, HandleAnswer, StartAsInitiator, OfferReady,
                  AnswerReady, ChannelOpens
    <2> QED BY <1>1, <1>2, <1>3, <2>1, SendKeepsOnce, ReceiveKeepsOnce
  <1> QED BY <1>3, <1>4 DEF meshVars

\* However channels open, fail and come again while edits are made and edits are
\* under way, over both ways, no edit comes to anybody twice
\* (socketManager.ts, send; webrtcService.ts, broadcast).
THEOREM EditsComeOnce == MeshSpec => []NoEditTwice
  <1>1. MeshSpec => []OnceInv
    BY OnceInvHolds, OnceInvStays, PTL DEF MeshSpec
  <1>2. OnceInv => NoEditTwice
    BY Zenon DEF OnceInv, EachOnce, Distinct, NoEditTwice
  <1> QED BY <1>1, <1>2, PTL

-----------------------------------------------------------------------------
(* PeerMesh: types.                                                        *)

\* What the rest of the invariant does not say of the types.
EditsMade ==
    /\ meshEdits \in [Participant -> 0 .. MaxEdits]
    /\ meshDirect \in [Participant -> [Participant -> Seq(EditRecord)]]
    /\ meshRelayed \in [Participant -> Seq(EditRecord)]
    /\ meshGot \in [Participant -> Seq(EditRecord)]
    /\ meshMissed \subseteq EditRecord \X Participant
RoomTyped ==
    /\ meshRoom \subseteq Participant /\ meshGone \subseteq Participant
    /\ meshFailures \in 0 .. MaxFailures
NotAlone == \A i \in Participant : Entry(i, i) = "none"
MeshTyped == MeshInv /\ EditsMade /\ RoomTyped /\ NotAlone

LEMMA MeshTypedHolds == MeshInit => MeshTyped
  <1> SUFFICES ASSUME MeshInit PROVE MeshTyped
    OBVIOUS
  <1>1. EditsMade /\ RoomTyped /\ NotAlone
    BY MeshBounds DEF MeshInit, EditsMade, RoomTyped, NotAlone, Entry
  <1> QED BY <1>1, MeshInvHolds DEF MeshTyped

LEMMA SendKeepsEdits ==
    ASSUME EditsMade, RoomTyped, NEW i \in Participant, SendEdit(i)
    PROVE  EditsMade'
  <1> DEFINE edit == [from |-> i, number |-> meshEdits[i] + 1]
             reached == IF ByMesh(i) THEN Open(i) ELSE meshRoom \ {i}
             new == [j \in Participant |->
                        IF ByMesh(i) /\ j \in Open(i) /\ Entry(j, i) # "none"
                        THEN Append(meshDirect[i][j], edit) ELSE meshDirect[i][j]]
  <1>1. meshEdits[i] \in 0 .. MaxEdits /\ meshEdits[i] < MaxEdits
    BY DEF EditsMade, SendEdit
  <1>2. meshEdits[i] + 1 \in 1 .. MaxEdits
    BY <1>1, MeshBounds
  <1>3. edit \in EditRecord
    BY <1>2 DEF EditRecord
  <1>4. /\ meshEdits' = [meshEdits EXCEPT ![i] = @ + 1]
        /\ meshDirect' = [meshDirect EXCEPT ![i] = new]
        /\ meshRelayed' = [j \in Participant |->
               IF AlsoRelayed(i) /\ j \in meshRoom \ {i} THEN Append(meshRelayed[j], edit) ELSE meshRelayed[j]]
        /\ meshMissed' = meshMissed \cup {<<edit, j>> : j \in (meshRoom \ {i}) \ reached}
        /\ meshGot' = meshGot
    BY DEF SendEdit, EditsMade
  <1> HIDE DEF edit, reached
  <1>5. meshEdits' \in [Participant -> 0 .. MaxEdits]
    BY <1>1, <1>2, <1>4, MeshBounds DEF EditsMade
  <1>6. meshDirect' \in [Participant -> [Participant -> Seq(EditRecord)]]
    <2>1. ASSUME NEW j \in Participant PROVE new[j] \in Seq(EditRecord)
      BY <1>3, AppendProperties DEF EditsMade
    <2>2. new \in [Participant -> Seq(EditRecord)]
      BY <2>1
    <2> HIDE DEF new
    <2> QED BY <1>4, <2>2 DEF EditsMade
  <1>7. meshRelayed' \in [Participant -> Seq(EditRecord)]
    <2>1. ASSUME NEW j \in Participant
          PROVE  Append(meshRelayed[j], edit) \in Seq(EditRecord) /\ meshRelayed[j] \in Seq(EditRecord)
      BY <1>3, AppendProperties DEF EditsMade
    <2> QED BY <1>4, <2>1
  <1>8. meshMissed' \subseteq EditRecord \X Participant
    BY <1>3, <1>4 DEF EditsMade, RoomTyped
  <1> QED BY <1>4, <1>5, <1>6, <1>7, <1>8 DEF EditsMade

LEMMA ReceiveKeepsEdits ==
    ASSUME EditsMade, NEW i \in Participant, ReceiveEdit(i)
    PROVE  EditsMade'
  <1>1. UNCHANGED <<meshEdits, meshMissed>>
    BY DEF ReceiveEdit
  <1>2. ASSUME NEW s \in Seq(EditRecord), s # << >>
        PROVE  Head(s) \in EditRecord /\ Tail(s) \in Seq(EditRecord)
    BY <1>2
  <1>3. \A g \in Seq(EditRecord), e \in EditRecord : Append(g, e) \in Seq(EditRecord)
    BY AppendProperties
  <1>4. CASE /\ meshRelayed[i] # << >>
             /\ meshGot' = [meshGot EXCEPT ![i] = Append(@, Head(meshRelayed[i]))]
             /\ meshRelayed' = [meshRelayed EXCEPT ![i] = Tail(@)] /\ UNCHANGED meshDirect
    <2>1. Head(meshRelayed[i]) \in EditRecord /\ Tail(meshRelayed[i]) \in Seq(EditRecord)
      BY <1>2, <1>4 DEF EditsMade
    <2>2. Append(meshGot[i], Head(meshRelayed[i])) \in Seq(EditRecord)
      BY <1>3, <2>1 DEF EditsMade
    <2> QED BY <1>1, <1>4, <2>1, <2>2 DEF EditsMade
  <1>5. CASE \E j \in Participant :
                /\ Entry(i, j) = "open" /\ meshDirect[j][i] # << >>
                /\ meshGot' = [meshGot EXCEPT ![i] = Append(@, Head(meshDirect[j][i]))]
                /\ meshDirect' = [meshDirect EXCEPT ![j][i] = Tail(@)] /\ UNCHANGED meshRelayed
    <2> PICK j \in Participant :
                /\ meshDirect[j][i] # << >>
                /\ meshGot' = [meshGot EXCEPT ![i] = Append(@, Head(meshDirect[j][i]))]
                /\ meshDirect' = [meshDirect EXCEPT ![j][i] = Tail(@)] /\ UNCHANGED meshRelayed
      BY <1>5
    <2>1. Head(meshDirect[j][i]) \in EditRecord /\ Tail(meshDirect[j][i]) \in Seq(EditRecord)
      BY <1>2 DEF EditsMade
    <2>2. Append(meshGot[i], Head(meshDirect[j][i])) \in Seq(EditRecord)
      BY <1>3, <2>1 DEF EditsMade
    <2> QED BY <1>1, <2>1, <2>2 DEF EditsMade
  <1> QED BY <1>4, <1>5 DEF ReceiveEdit

\* An entry is only made for another one.
LEMMA BecomeOther ==
    ASSUME NegotiationOK, NotAlone, NEW i \in Participant, NEW j \in Participant, i # j,
           NEW state \in EntryStates, Become(i, j, state)
    PROVE  NotAlone'
  <1>1. \A k, l \in Participant : Entry(k, l)' = IF k = i /\ l = j THEN state ELSE Entry(k, l)
    BY BecomeKeepsType
  <1> QED BY <1>1 DEF NotAlone

LEMMA MeshTypedStays == MeshTyped /\ [MeshNext]_meshVars => MeshTyped'
  <1> SUFFICES ASSUME MeshTyped, [MeshNext]_meshVars PROVE MeshTyped'
    OBVIOUS
  <1>0. MeshInv /\ EditsMade /\ RoomTyped /\ NotAlone /\ NegotiationOK /\ SignalsDirected
    BY DEF MeshTyped, MeshInv
  <1>1. MeshInv'
    BY <1>0, MeshInvStays
  <1>2. UNCHANGED <<meshRoom, meshGone, meshFailures>> => RoomTyped'
    BY <1>0 DEF RoomTyped
  <1>3. UNCHANGED meshEditVars => EditsMade'
    BY <1>0 DEF EditsMade, meshEditVars
  <1>4. UNCHANGED meshPeers => NotAlone'
    BY <1>0 DEF NotAlone, Entry
  <1>5. ASSUME NEW i \in Participant, NEW j \in Participant, StartAsInitiator(i, j) PROVE MeshTyped'
    <2>1. Become(i, j, "offering") /\ i # j /\ "offering" \in EntryStates
      BY <1>5, ParticipantAssumption DEF StartAsInitiator, Initiates, EntryStates
    <2>2. UNCHANGED <<meshRoom, meshGone, meshEditVars, meshFailures>>
      BY <1>5 DEF StartAsInitiator
    <2>3. NotAlone'
      BY <1>0, <2>1, BecomeOther
    <2> QED BY <1>1, <1>2, <1>3, <2>2, <2>3 DEF MeshTyped
  <1>6. ASSUME NEW i \in Participant, NEW j \in Participant,
               OfferReady(i, j) \/ AnswerReady(i, j) \/ ChannelOpens(i, j)
        PROVE  MeshTyped'
    <2>1. PICK state \in {"offered", "answered", "open"} : Become(i, j, state)
      BY <1>6 DEF OfferReady, AnswerReady, ChannelOpens
    <2>2. Entry(i, j) # "none"
      BY <1>6 DEF OfferReady, AnswerReady, ChannelOpens
    <2>3. i # j /\ state \in EntryStates
      BY <1>0, <2>2 DEF NotAlone, EntryStates
    <2>4. UNCHANGED <<meshRoom, meshGone, meshEditVars, meshFailures>>
      BY <1>6 DEF OfferReady, AnswerReady, ChannelOpens
    <2>5. NotAlone'
      BY <1>0, <2>1, <2>3, BecomeOther
    <2> QED BY <1>1, <1>2, <1>3, <2>4, <2>5 DEF MeshTyped
  <1>7. ASSUME NEW i \in Participant, HandleOffer(i) \/ HandleAnswer(i) PROVE MeshTyped'
    <2> DEFINE j == Head(meshSignals[i]).from
    <2>1. /\ meshSignals[i] # << >> /\ meshSignals' = Took(i)
          /\ Head(meshSignals[i]).type \in {"offer", "answer"}
          /\ Become(i, j, "answering") \/ Become(i, j, "connected") \/ UNCHANGED meshPeers
          /\ UNCHANGED <<meshRoom, meshGone, meshEditVars, meshFailures>>
      BY <1>7 DEF HandleOffer, HandleAnswer, Incoming
    <2>2. j \in Participant /\ (j < i \/ i < j)
      BY <1>0, <2>1, TookKeeps DEF SignalRecord, Directed
    <2>3. i # j /\ "answering" \in EntryStates /\ "connected" \in EntryStates
      BY <2>2, ParticipantAssumption DEF EntryStates
    <2> HIDE DEF j
    <2>4. NotAlone'
      BY <1>0, <1>4, <2>1, <2>2, <2>3, BecomeOther
    <2> QED BY <1>1, <1>2, <1>3, <2>1, <2>4 DEF MeshTyped
  <1>8. ASSUME NEW i \in Participant, NEW j \in Participant, ChannelCloses(i, j) PROVE MeshTyped'
    <2>1. Become(i, j, "closed") /\ Entry(i, j) # "none" /\ "closed" \in EntryStates
      BY <1>8 DEF ChannelCloses, EntryStates
    <2>2. i # j
      BY <1>0, <2>1 DEF NotAlone
    <2>3. NotAlone'
      BY <1>0, <2>1, <2>2, BecomeOther
    <2>4. RoomTyped'
      BY <1>0, <1>8, MeshBounds DEF ChannelCloses, RoomTyped
    <2>5. EditsMade'
      <3>1. /\ meshDirect' = [meshDirect EXCEPT ![j][i] = << >>]
            /\ UNCHANGED <<meshEdits, meshRelayed, meshGot, meshMissed>>
        BY <1>8 DEF ChannelCloses
      <3>2. << >> \in Seq(EditRecord)
        OBVIOUS
      <3> QED BY <1>0, <3>1, <3>2 DEF EditsMade
    <2> QED BY <1>1, <2>3, <2>4, <2>5 DEF MeshTyped
  <1>9. ASSUME NEW i \in Participant, Join(i) PROVE MeshTyped'
    <2>1. RoomTyped' /\ UNCHANGED meshPeers /\ UNCHANGED meshEditVars
      BY <1>0, <1>9 DEF Join, RoomTyped
    <2> QED BY <1>1, <1>3, <1>4, <2>1 DEF MeshTyped
  <1>10. ASSUME NEW i \in Participant, LeaveMesh(i) PROVE MeshTyped'
    <2>1. RoomTyped'
      BY <1>0, <1>10 DEF LeaveMesh, RoomTyped
    <2>2. NotAlone'
      <3>1. meshPeers' = [meshPeers EXCEPT ![i] = [j \in Participant |-> "none"]]
        BY <1>10 DEF LeaveMesh
      <3> QED BY <1>0, <3>1 DEF NotAlone, Entry, NegotiationOK
    <2>3. EditsMade'
      <3>1. /\ meshDirect' = [j \in Participant |-> [meshDirect[j] EXCEPT ![i] = << >>]]
            /\ meshRelayed' = [meshRelayed EXCEPT ![i] = << >>]
            /\ UNCHANGED <<meshEdits, meshGot, meshMissed>>
        BY <1>10 DEF LeaveMesh
      <3>2. << >> \in Seq(EditRecord)
        OBVIOUS
      <3>3. ASSUME NEW j \in Participant
            PROVE  [meshDirect[j] EXCEPT ![i] = << >>] \in [Participant -> Seq(EditRecord)]
        BY <1>0, <3>2 DEF EditsMade
      <3> QED BY <1>0, <3>1, <3>2, <3>3 DEF EditsMade
    <2> QED BY <1>1, <2>1, <2>2, <2>3 DEF MeshTyped
  <1>11. ASSUME NEW i \in Participant, SendEdit(i) \/ ReceiveEdit(i) PROVE MeshTyped'
    <2>1. UNCHANGED <<meshRoom, meshGone, meshPeers, meshFailures>>
      BY <1>11 DEF SendEdit, ReceiveEdit
    <2> QED BY <1>0, <1>1, <1>2, <1>4, <1>11, <2>1, SendKeepsEdits, ReceiveKeepsEdits DEF MeshTyped
  <1>12. CASE UNCHANGED meshVars
    <2>1. UNCHANGED <<meshRoom, meshGone, meshPeers, meshFailures>> /\ UNCHANGED meshEditVars
      BY <1>12 DEF meshVars
    <2> QED BY <1>1, <1>2, <1>3, <1>4, <2>1 DEF MeshTyped
  <1> QED BY <1>5, <1>6, <1>7, <1>8, <1>9, <1>10, <1>11, <1>12 DEF MeshNext, Negotiate

\* Who is in the room, what each has for the others, and the signals and edits under
\* way stay what they may be: nobody ever has a connection to itself, and every
\* edit anywhere is one that was made (webrtcService.ts, SocketManager.send).
THEOREM MeshTypeCorrect == MeshSpec => []MeshTypeOK
  <1>1. MeshTyped => MeshTypeOK
    BY DEF MeshTyped, MeshInv, NegotiationOK, EditsMade, RoomTyped, NotAlone, MeshTypeOK, SignalRecord
  <1> QED BY <1>1, MeshTypedHolds, MeshTypedStays, PTL DEF MeshSpec

-----------------------------------------------------------------------------
(* PortTunnel.                                                             *)

\* A request's frame is under way only before the one asked has read it, and to
\* one member, once.
Single(s) == \A i, j \in 1 .. Len(s) : s[i] \in TunnelRequest /\ i # j => s[i] # s[j]
OneFrame ==
    \A m \in TunnelMember :
        /\ Single(tunnelFrames[m])
        /\ \A r \in TunnelRequest :
              r \in In(tunnelFrames[m]) =>
                  /\ tunnelStage[r] = "sent"
                  /\ \A n \in TunnelMember : r \in In(tunnelFrames[n]) => n = m

\* What has been answered at each stage.  The promise may be settled before the
\* request is over, when it ran out of time and its 'error' is yet to come.
AnsweredByStage ==
    \A r \in TunnelRequest :
        /\ tunnelProxy[r] = "none" => tunnelStage[r] = "none"
        /\ tunnelStage[r] \in {"none", "sent", "asked", "responding", "broken off"} =>
               tunnelSettled[r] = FALSE /\ tunnelAnswers[r] = << >>
        /\ tunnelStage[r] = "destroyed" => tunnelSettled[r] = TRUE /\ Len(tunnelAnswers[r]) = 1
        /\ tunnelStage[r] = "over" => Len(tunnelAnswers[r]) = 1

TunnelInv == TunnelTypeOK /\ OneFrame /\ AnsweredByStage

TunnelFrame == TunnelRequest \cup {"PORT_FORWARD"}

LEMMA SingleGrows ==
    ASSUME NEW s \in Seq(TunnelFrame), NEW x \in TunnelFrame, Single(s),
           x \in TunnelRequest => x \notin In(s)
    PROVE  Single(Append(s, x))
  <1> DEFINE t == Append(s, x)
  <1>1. /\ Len(t) = Len(s) + 1 /\ Len(s) \in Nat
        /\ \A i \in 1 .. Len(s) : t[i] = s[i]
        /\ t[Len(s) + 1] = x
    OBVIOUS
  <1> HIDE DEF t
  <1>2. \A i \in 1 .. Len(t) : i \in 1 .. Len(s) \/ i = Len(s) + 1
    BY <1>1
  <1>3. Single(t)
    BY <1>1, <1>2 DEF Single, In
  <1> QED BY <1>3 DEF t

LEMMA SingleShrinks ==
    ASSUME NEW s \in Seq(TunnelFrame), Single(s), s # << >>
    PROVE  Single(Tail(s)) /\ (Head(s) \in TunnelRequest => Head(s) \notin In(Tail(s)))
  <1> DEFINE t == Tail(s)
  <1>1. /\ Len(t) = Len(s) - 1 /\ Len(s) \in Nat /\ Head(s) = s[1] /\ 1 \in 1 .. Len(s)
        /\ \A i \in 1 .. Len(t) : t[i] = s[i + 1] /\ i + 1 \in 1 .. Len(s) /\ i + 1 # 1
    OBVIOUS
  <1> HIDE DEF t
  <1>2. Single(t)
    <2>1. \A i, j \in 1 .. Len(t) : i # j => i + 1 # j + 1
      OBVIOUS
    <2> QED BY <1>1, <2>1 DEF Single
  <1>3. Head(s) \in TunnelRequest => Head(s) \notin In(t)
    BY <1>1 DEF Single, In
  <1> QED BY <1>2, <1>3 DEF t

LEMMA TunnelInvHolds == TunnelInit => TunnelInv
  BY DEF TunnelInit, TunnelStage, TunnelInv, TunnelTypeOK, OneFrame, Single, In, AnsweredByStage

\* A step that takes no request's frame to anybody, and moves no request that is
\* still on its way.
LEMMA FramesStay ==
    ASSUME OneFrame,
           \A m \in TunnelMember : Single(tunnelFrames'[m])
               /\ \A r \in TunnelRequest : r \in In(tunnelFrames'[m]) => r \in In(tunnelFrames[m]),
           \A r \in TunnelRequest : tunnelStage'[r] = tunnelStage[r]
               \/ \A m \in TunnelMember : r \notin In(tunnelFrames'[m])
    PROVE  OneFrame'
  <1>1. \A m \in TunnelMember : \A r \in TunnelRequest :
           r \in In(tunnelFrames'[m]) =>
               /\ tunnelStage'[r] = "sent"
               /\ \A n \in TunnelMember : r \in In(tunnelFrames'[n]) => n = m
    BY DEF OneFrame
  <1>2. \A m \in TunnelMember : Single(tunnelFrames'[m])
    OBVIOUS
  <1> QED BY <1>1, <1>2, Zenon DEF OneFrame, In, Single

LEMMA TunnelSame ==
    ASSUME OneFrame, AnsweredByStage,
           UNCHANGED <<tunnelFrames, tunnelStage, tunnelSettled, tunnelAnswers, tunnelProxy>>
    PROVE  OneFrame' /\ AnsweredByStage'
  <1>1. OneFrame'
    <2>1. /\ tunnelFrames' = tunnelFrames /\ tunnelStage' = tunnelStage
      OBVIOUS
    <2> QED BY <2>1, FramesStay, Zenon DEF OneFrame
  <1>2. AnsweredByStage'
    BY DEF AnsweredByStage
  <1> QED BY <1>1, <1>2

LEMMA MembersKeepTunnel ==
    ASSUME TunnelInv, NEW m \in TunnelMember, ForwardPort(m) \/ TunnelHears(m) \/ TunnelReset(m)
    PROVE  TunnelInv'
  <1>0. TunnelTypeOK /\ OneFrame /\ AnsweredByStage
    BY DEF TunnelInv
  <1>1. tunnelFrames \in [TunnelMember -> Seq(TunnelFrame)] /\ "PORT_FORWARD" \notin TunnelRequest
    BY <1>0, TunnelAssumption DEF TunnelTypeOK, TunnelFrame
  <1>2. CASE ForwardPort(m)
    <2>1. \A n \in TunnelMember : \/ tunnelFrames'[n] = tunnelFrames[n]
                                  \/ tunnelFrames'[n] = Append(tunnelFrames[n], "PORT_FORWARD")
      BY <1>2 DEF ForwardPort
    <2>2. UNCHANGED <<tunnelPorts, tunnelStage, tunnelSettled, tunnelAnswers, tunnelProxy>>
      BY <1>2 DEF ForwardPort
    <2>3. ASSUME NEW n \in TunnelMember
          PROVE  /\ tunnelFrames'[n] \in Seq(TunnelFrame) /\ Single(tunnelFrames'[n])
                 /\ \A r \in TunnelRequest : r \in In(tunnelFrames'[n]) => r \in In(tunnelFrames[n])
      <3>1. "PORT_FORWARD" \in TunnelFrame /\ tunnelFrames[n] \in Seq(TunnelFrame) /\ Single(tunnelFrames[n])
        BY <1>0, <1>1 DEF TunnelFrame, OneFrame
      <3>2. CASE tunnelFrames'[n] = tunnelFrames[n]
        BY <3>1, <3>2
      <3>3. CASE tunnelFrames'[n] = Append(tunnelFrames[n], "PORT_FORWARD")
        BY <1>1, <3>1, <3>3, SingleGrows, QueueAppended
      <3> QED BY <2>1, <3>2, <3>3
    <2>4. OneFrame'
      BY <1>0, <2>2, <2>3, FramesStay
    <2>5. tunnelFrames' \in [TunnelMember -> Seq(TunnelFrame)]
      BY <1>2, <2>3 DEF ForwardPort
    <2> QED BY <1>0, <2>2, <2>4, <2>5 DEF TunnelInv, TunnelTypeOK, TunnelFrame, AnsweredByStage
  <1>3. CASE TunnelHears(m)
    <2> DEFINE f == Head(tunnelFrames[m])
    <2>1. tunnelFrames[m] # << >> /\ tunnelFrames' = [tunnelFrames EXCEPT ![m] = Tail(@)]
      BY <1>3 DEF TunnelHears, AnnouncePort, HandleTunnelRequest
    <2>2. /\ f \in TunnelFrame /\ f \in In(tunnelFrames[m])
          /\ Tail(tunnelFrames[m]) \in Seq(TunnelFrame) /\ Single(Tail(tunnelFrames[m]))
          /\ In(Tail(tunnelFrames[m])) \subseteq In(tunnelFrames[m])
          /\ f \in TunnelRequest => f \notin In(Tail(tunnelFrames[m]))
      <3>1. tunnelFrames[m] \in Seq(TunnelFrame) /\ Single(tunnelFrames[m])
        BY <1>0, <1>1 DEF OneFrame
      <3> QED BY <2>1, <3>1, SingleShrinks, QueueTaken
    <2>3. ASSUME NEW n \in TunnelMember
          PROVE  /\ tunnelFrames'[n] \in Seq(TunnelFrame) /\ Single(tunnelFrames'[n])
                 /\ \A r \in TunnelRequest : r \in In(tunnelFrames'[n]) => r \in In(tunnelFrames[n])
      <3>1. tunnelFrames'[n] = IF n = m THEN Tail(tunnelFrames[m]) ELSE tunnelFrames[n]
        BY <1>1, <2>1
      <3> QED BY <1>0, <1>1, <2>2, <3>1 DEF OneFrame
    <2>4. tunnelFrames' \in [TunnelMember -> Seq(TunnelFrame)]
      BY <1>1, <2>1, <2>2
    <2> HIDE DEF f
    <2>5. CASE AnnouncePort(m)
      <3>1. /\ tunnelPorts' = tunnelPorts \cup {m}
            /\ UNCHANGED <<tunnelStage, tunnelSettled, tunnelAnswers, tunnelProxy>>
        BY <2>5 DEF AnnouncePort
      <3>2. OneFrame'
        BY <1>0, <2>3, <3>1, FramesStay
      <3> QED BY <1>0, <2>4, <3>1, <3>2 DEF TunnelInv, TunnelTypeOK, TunnelFrame, AnsweredByStage
    <2>6. CASE HandleTunnelRequest(m)
      <3>1. /\ f \in TunnelRequest
            /\ \/ /\ tunnelStage' = [tunnelStage EXCEPT ![f] = "over"]
                  /\ tunnelAnswers' = [tunnelAnswers EXCEPT ![f] = Append(@, 403)]
               \/ /\ tunnelStage' = [tunnelStage EXCEPT ![f] = "asked"]
                  /\ UNCHANGED tunnelAnswers
            /\ UNCHANGED <<tunnelPorts, tunnelSettled, tunnelProxy>>
        BY <2>6 DEF HandleTunnelRequest, f
      <3>2. tunnelStage[f] = "sent" /\ tunnelSettled[f] = FALSE /\ tunnelAnswers[f] = << >>
        BY <1>0, <2>2, <3>1 DEF OneFrame, AnsweredByStage
      <3>3. \A n \in TunnelMember : f \notin In(tunnelFrames'[n])
        <4>1. \A n \in TunnelMember : f \in In(tunnelFrames[n]) => n = m
          BY <1>0, <2>2, <3>1 DEF OneFrame
        <4>2. tunnelFrames'[m] = Tail(tunnelFrames[m])
          BY <1>1, <2>1
        <4> QED BY <2>2, <2>3, <3>1, <4>1, <4>2
      <3>4. \A r \in TunnelRequest : r # f => tunnelStage'[r] = tunnelStage[r]
                                              /\ tunnelAnswers'[r] = tunnelAnswers[r]
        BY <1>0, <3>1 DEF TunnelTypeOK
      <3>5. OneFrame'
        BY <1>0, <2>3, <3>3, <3>4, FramesStay
      <3>6. Append(tunnelAnswers[f], 403) = << 403 >>
        BY <3>2
      <3>7. /\ tunnelStage' \in [TunnelRequest -> TunnelStage]
            /\ tunnelAnswers' \in [TunnelRequest -> Seq(TunnelAnswer)]
        <4>1. tunnelStage' \in [TunnelRequest -> TunnelStage]
          BY <1>0, <3>1 DEF TunnelTypeOK, TunnelStage
        <4>2. tunnelAnswers[f] \in Seq(TunnelAnswer) /\ 403 \in TunnelAnswer
          BY <1>0, <3>1 DEF TunnelTypeOK, TunnelAnswer
        <4>3. Append(tunnelAnswers[f], 403) \in Seq(TunnelAnswer)
          BY <4>2, QueueAppended
        <4>4. tunnelAnswers' \in [TunnelRequest -> Seq(TunnelAnswer)]
          <5>1. tunnelAnswers \in [TunnelRequest -> Seq(TunnelAnswer)]
            BY <1>0 DEF TunnelTypeOK
          <5>2. \/ tunnelAnswers' = [tunnelAnswers EXCEPT ![f] = Append(tunnelAnswers[f], 403)]
                \/ tunnelAnswers' = tunnelAnswers
            BY <3>1, Zenon
          <5> QED BY <3>1, <4>3, <5>1, <5>2, Zenon
        <4> QED BY <4>1, <4>4
      <3>8. AnsweredByStage'
        <4> SUFFICES ASSUME NEW r \in TunnelRequest
                     PROVE  /\ tunnelProxy'[r] = "none" => tunnelStage'[r] = "none"
                            /\ tunnelStage'[r] \in {"none", "sent", "asked", "responding", "broken off"} =>
                                   tunnelSettled'[r] = FALSE /\ tunnelAnswers'[r] = << >>
                            /\ tunnelStage'[r] = "destroyed" => tunnelSettled'[r] = TRUE /\ Len(tunnelAnswers'[r]) = 1
                            /\ tunnelStage'[r] = "over" => Len(tunnelAnswers'[r]) = 1
          BY Zenon DEF AnsweredByStage
        <4>1. CASE r # f
          BY <1>0, <3>1, <3>4, <4>1 DEF AnsweredByStage
        <4>2. CASE r = f
          <5>1. tunnelProxy[f] # "none" /\ tunnelProxy' = tunnelProxy /\ tunnelSettled' = tunnelSettled
            BY <1>0, <3>1, <3>2 DEF AnsweredByStage
          <5>2. \/ tunnelStage'[f] = "over" /\ tunnelAnswers'[f] = << 403 >>
                \/ tunnelStage'[f] = "asked" /\ tunnelAnswers'[f] = << >>
            <6>1. CASE /\ tunnelStage' = [tunnelStage EXCEPT ![f] = "over"]
                       /\ tunnelAnswers' = [tunnelAnswers EXCEPT ![f] = Append(@, 403)]
              <7>1. tunnelAnswers'[f] = Append(tunnelAnswers[f], 403) /\ tunnelStage'[f] = "over"
                BY <1>0, <3>1, <6>1 DEF TunnelTypeOK
              <7> QED BY <3>6, <7>1
            <6>2. CASE /\ tunnelStage' = [tunnelStage EXCEPT ![f] = "asked"]
                       /\ UNCHANGED tunnelAnswers
              BY <1>0, <3>1, <3>2, <6>2 DEF TunnelTypeOK
            <6> QED BY <3>1, <6>1, <6>2
          <5> QED BY <3>2, <4>2, <5>1, <5>2
        <4> QED BY <4>1, <4>2
      <3> QED BY <1>0, <2>4, <3>1, <3>5, <3>7, <3>8 DEF TunnelInv, TunnelTypeOK, TunnelFrame
    <2> QED BY <1>3, <2>5, <2>6 DEF TunnelHears
  <1>4. CASE TunnelReset(m)
    <2>1. /\ tunnelPorts' = tunnelPorts \ {m}
          /\ UNCHANGED <<tunnelFrames, tunnelStage, tunnelSettled, tunnelAnswers, tunnelProxy>>
      BY <1>4 DEF TunnelReset
    <2>2. TunnelTypeOK'
      BY <1>0, <2>1 DEF TunnelTypeOK
    <2>3. OneFrame' /\ AnsweredByStage'
      BY <1>0, <2>1, TunnelSame
    <2> QED BY <2>2, <2>3 DEF TunnelInv
  <1> QED BY <1>2, <1>3, <1>4

\* A request's own steps: the wait of the one that asked runs out, its promise
\* settles, or the local program goes on.
WaitRunsOut(r) ==
    /\ tunnelProxy[r] # "none" /\ tunnelProxy'[r] = "rejected"
    /\ UNCHANGED <<tunnelStage, tunnelSettled, tunnelAnswers>>
IsSettled(r) ==
    /\ tunnelStage[r] \in {"asked", "responding", "destroyed"} /\ tunnelStage'[r] \in {"over", "destroyed"}
    /\ tunnelSettled'[r] = TRUE /\ UNCHANGED tunnelProxy
    /\ Len(tunnelAnswers'[r]) = 1
GoesOn(r) ==
    /\ tunnelStage[r] \in {"asked", "responding"} /\ tunnelStage'[r] \in {"responding", "broken off"}
    /\ UNCHANGED <<tunnelSettled, tunnelAnswers, tunnelProxy>>
OthersStay(r) ==
    \A q \in TunnelRequest : q # r =>
        /\ tunnelStage'[q] = tunnelStage[q] /\ tunnelSettled'[q] = tunnelSettled[q]
        /\ tunnelAnswers'[q] = tunnelAnswers[q] /\ tunnelProxy'[q] = tunnelProxy[q]

LEMMA Updated ==
    ASSUME NEW S, NEW T, NEW f \in [S -> T], NEW r \in S, NEW v
    PROVE  /\ [f EXCEPT ![r] = v][r] = v
           /\ \A q \in S : q # r => [f EXCEPT ![r] = v][q] = f[q]
  OBVIOUS

LEMMA SettlesOnce ==
    ASSUME TunnelTypeOK, AnsweredByStage, NEW r \in TunnelRequest,
           tunnelStage[r] \in {"asked", "responding", "destroyed"},
           NEW status, NEW stage \in {"over", "destroyed"}, Settle(r, status, stage)
    PROVE  OthersStay(r) /\ IsSettled(r)
  <1> DEFINE answers == IF tunnelSettled[r] THEN tunnelAnswers[r] ELSE Append(tunnelAnswers[r], status)
  <1>1. /\ tunnelStage' = [tunnelStage EXCEPT ![r] = stage]
        /\ tunnelSettled' = [tunnelSettled EXCEPT ![r] = TRUE]
        /\ tunnelAnswers' = [tunnelAnswers EXCEPT ![r] = answers]
        /\ UNCHANGED <<tunnelPorts, tunnelFrames, tunnelProxy>>
    BY Zenon DEF Settle
  <1>2. Len(answers) = 1
    <2>1. CASE tunnelStage[r] = "destroyed"
      <3>1. tunnelSettled[r] = TRUE /\ Len(tunnelAnswers[r]) = 1
        BY <2>1, Zenon DEF AnsweredByStage
      <3> QED BY <3>1, Zenon
    <2>2. CASE tunnelStage[r] \in {"asked", "responding"}
      <3>1. tunnelSettled[r] = FALSE /\ tunnelAnswers[r] = << >>
        BY <2>2 DEF AnsweredByStage
      <3>2. Len(Append(<< >>, status)) = 1
        OBVIOUS
      <3> QED BY <3>1, <3>2, Zenon
    <2> QED BY <2>1, <2>2
  <1>3. /\ tunnelStage \in [TunnelRequest -> TunnelStage] /\ tunnelSettled \in [TunnelRequest -> BOOLEAN]
        /\ tunnelAnswers \in [TunnelRequest -> Seq(TunnelAnswer)]
    BY Zenon DEF TunnelTypeOK
  <1> HIDE DEF answers
  <1>4. /\ tunnelStage'[r] = stage
        /\ \A q \in TunnelRequest : q # r => tunnelStage'[q] = tunnelStage[q]
    BY <1>1, <1>3, Updated, Zenon
  <1>5. /\ tunnelSettled'[r] = TRUE
        /\ \A q \in TunnelRequest : q # r => tunnelSettled'[q] = tunnelSettled[q]
    BY <1>1, <1>3, Updated, Zenon
  <1>6. /\ tunnelAnswers'[r] = answers
        /\ \A q \in TunnelRequest : q # r => tunnelAnswers'[q] = tunnelAnswers[q]
    BY <1>1, <1>3, Updated, Zenon
  <1>7. OthersStay(r)
    BY <1>1, <1>4, <1>5, <1>6, Zenon DEF OthersStay
  <1> QED BY <1>1, <1>2, <1>4, <1>5, <1>6, <1>7, Zenon DEF IsSettled

LEMMA RequestSteps ==
    ASSUME TunnelInv, NEW r \in TunnelRequest,
           ProxyTimeout(r) \/ RequestEvent(r) \/ LocalProgram(r)
    PROVE  /\ UNCHANGED <<tunnelPorts, tunnelFrames>> /\ OthersStay(r)
           /\ WaitRunsOut(r) \/ IsSettled(r) \/ GoesOn(r)
  <1>0. TunnelTypeOK /\ AnsweredByStage
    BY DEF TunnelInv
  <1>1. CASE ProxyTimeout(r)
    BY <1>0, <1>1 DEF ProxyTimeout, TunnelTypeOK, WaitRunsOut, OthersStay
  <1>2. CASE RequestEvent(r)
    <2>1. PICK status \in {200, 502}, stage \in {"over", "destroyed"} : Settle(r, status, stage)
      BY <1>2 DEF RequestEvent, ResponseEnds, RequestError, RequestTimeout
    <2>2. tunnelStage[r] \in {"asked", "responding", "destroyed"}
      BY <1>2 DEF RequestEvent, ResponseEnds, RequestError, RequestTimeout
    <2>3. UNCHANGED <<tunnelPorts, tunnelFrames>>
      BY <2>1 DEF Settle
    <2>4. OthersStay(r) /\ IsSettled(r)
      BY <1>0, <2>1, <2>2, SettlesOnce
    <2> QED BY <2>3, <2>4
  <1>3. CASE LocalProgram(r)
    BY <1>0, <1>3 DEF LocalProgram, TunnelTypeOK, GoesOn, OthersStay
  <1> QED BY <1>1, <1>2, <1>3

LEMMA RequestKeepsTunnel ==
    ASSUME TunnelInv, NEW r \in TunnelRequest,
           ProxyTimeout(r) \/ RequestEvent(r) \/ LocalProgram(r)
    PROVE  TunnelInv'
  <1>0. TunnelTypeOK /\ OneFrame /\ AnsweredByStage
    BY DEF TunnelInv
  <1>1. TunnelTypeOK'
    <2>1. CASE ProxyTimeout(r)
      BY <1>0, <2>1 DEF ProxyTimeout, TunnelTypeOK
    <2>2. CASE LocalProgram(r)
      BY <1>0, <2>2 DEF LocalProgram, TunnelTypeOK, TunnelStage
    <2>3. CASE RequestEvent(r)
      <3>1. PICK status \in {200, 502}, stage \in {"over", "destroyed"} : Settle(r, status, stage)
        BY <2>3 DEF RequestEvent, ResponseEnds, RequestError, RequestTimeout
      <3>2. tunnelAnswers[r] \in Seq(TunnelAnswer) /\ status \in TunnelAnswer
        BY <1>0 DEF TunnelTypeOK, TunnelAnswer
      <3>3. Append(tunnelAnswers[r], status) \in Seq(TunnelAnswer)
        BY <3>2, QueueAppended
      <3> QED BY <1>0, <3>1, <3>3 DEF Settle, TunnelTypeOK, TunnelStage
    <2> QED BY <2>1, <2>2, <2>3
  <1>2. UNCHANGED tunnelFrames /\ \A q \in TunnelRequest : tunnelStage'[q] = tunnelStage[q] \/ q = r
    BY RequestSteps DEF OthersStay
  <1>3. tunnelStage'[r] = tunnelStage[r] \/ \A m \in TunnelMember : r \notin In(tunnelFrames[m])
    <2>1. tunnelStage' = tunnelStage \/ tunnelStage[r] # "sent"
      BY RequestSteps DEF WaitRunsOut, IsSettled, GoesOn
    <2> QED BY <1>0, <2>1 DEF OneFrame
  <1>4. OneFrame'
    <2>1. \A m \in TunnelMember : Single(tunnelFrames'[m])
               /\ \A q \in TunnelRequest : q \in In(tunnelFrames'[m]) => q \in In(tunnelFrames[m])
      BY <1>0, <1>2 DEF OneFrame
    <2>2. \A q \in TunnelRequest : tunnelStage'[q] = tunnelStage[q]
               \/ \A m \in TunnelMember : q \notin In(tunnelFrames'[m])
      BY <1>2, <1>3
    <2> QED BY <1>0, <2>1, <2>2, FramesStay
  <1>5. AnsweredByStage'
    <2> SUFFICES ASSUME NEW q \in TunnelRequest
                 PROVE  /\ tunnelProxy'[q] = "none" => tunnelStage'[q] = "none"
                        /\ tunnelStage'[q] \in {"none", "sent", "asked", "responding", "broken off"} =>
                               tunnelSettled'[q] = FALSE /\ tunnelAnswers'[q] = << >>
                        /\ tunnelStage'[q] = "destroyed" => tunnelSettled'[q] = TRUE /\ Len(tunnelAnswers'[q]) = 1
                        /\ tunnelStage'[q] = "over" => Len(tunnelAnswers'[q]) = 1
      BY Zenon DEF AnsweredByStage
    <2>1. CASE q # r
      <3>1. /\ tunnelStage'[q] = tunnelStage[q] /\ tunnelSettled'[q] = tunnelSettled[q]
            /\ tunnelAnswers'[q] = tunnelAnswers[q] /\ tunnelProxy'[q] = tunnelProxy[q]
        BY <2>1, RequestSteps, Zenon DEF OthersStay
      <3> QED BY <1>0, <3>1, Zenon DEF AnsweredByStage
    <2>2. CASE q = r
      <3>1. CASE WaitRunsOut(r)
        BY <1>0, <2>2, <3>1 DEF AnsweredByStage, WaitRunsOut
      <3>2. CASE IsSettled(r)
        <4>1. tunnelProxy[r] # "none"
          BY <1>0, <3>2 DEF AnsweredByStage, IsSettled
        <4> QED BY <2>2, <3>2, <4>1 DEF IsSettled
      <3>3. CASE GoesOn(r)
        BY <1>0, <2>2, <3>3 DEF AnsweredByStage, GoesOn
      <3> QED BY <3>1, <3>2, <3>3, RequestSteps
    <2> QED BY <2>1, <2>2
  <1> QED BY <1>1, <1>4, <1>5 DEF TunnelInv

\* A request is made once, and then there is no frame of it yet.
LEMMA ProxyKeepsTunnel ==
    ASSUME TunnelInv, NEW r \in TunnelRequest, NEW h \in TunnelMember, ProxyToRemote(r, h)
    PROVE  TunnelInv'
  <1>0. TunnelTypeOK /\ OneFrame /\ AnsweredByStage
    BY DEF TunnelInv
  <1>1. /\ tunnelProxy[r] = "none" /\ tunnelProxy' = [tunnelProxy EXCEPT ![r] = "waiting"]
        /\ tunnelFrames' = [tunnelFrames EXCEPT ![h] = Append(@, r)]
        /\ tunnelStage' = [tunnelStage EXCEPT ![r] = "sent"]
        /\ UNCHANGED <<tunnelPorts, tunnelSettled, tunnelAnswers>>
    BY DEF ProxyToRemote
  <1>2. /\ tunnelStage[r] = "none" /\ tunnelSettled[r] = FALSE /\ tunnelAnswers[r] = << >>
        /\ \A m \in TunnelMember : r \notin In(tunnelFrames[m])
    BY <1>0, <1>1 DEF AnsweredByStage, OneFrame
  <1>3. tunnelFrames \in [TunnelMember -> Seq(TunnelFrame)] /\ r \in TunnelFrame
    BY <1>0 DEF TunnelTypeOK, TunnelFrame
  <1>4. /\ Append(tunnelFrames[h], r) \in Seq(TunnelFrame)
        /\ In(Append(tunnelFrames[h], r)) = In(tunnelFrames[h]) \cup {r}
        /\ Single(Append(tunnelFrames[h], r))
    BY <1>0, <1>2, <1>3, QueueAppended, SingleGrows DEF OneFrame
  <1>5. /\ tunnelFrames' \in [TunnelMember -> Seq(TunnelFrame)]
        /\ \A m \in TunnelMember : tunnelFrames'[m] = IF m = h THEN Append(tunnelFrames[h], r) ELSE tunnelFrames[m]
    BY <1>1, <1>3, <1>4
  <1>6. /\ tunnelStage'[r] = "sent" /\ tunnelProxy'[r] = "waiting"
        /\ \A q \in TunnelRequest : q # r => tunnelStage'[q] = tunnelStage[q] /\ tunnelProxy'[q] = tunnelProxy[q]
    BY <1>0, <1>1 DEF TunnelTypeOK
  <1>7. \A m \in TunnelMember : \A q \in TunnelRequest :
           q \in In(tunnelFrames'[m]) <=> q \in In(tunnelFrames[m]) \/ (q = r /\ m = h)
    BY <1>4, <1>5
  <1>8. \A m \in TunnelMember : Single(tunnelFrames'[m])
    BY <1>0, <1>4, <1>5 DEF OneFrame
  <1>9. \A m \in TunnelMember : \A q \in TunnelRequest :
           q \in In(tunnelFrames'[m]) =>
               /\ tunnelStage'[q] = "sent"
               /\ \A n \in TunnelMember : q \in In(tunnelFrames'[n]) => n = m
    BY <1>0, <1>2, <1>6, <1>7 DEF OneFrame
  <1>10. OneFrame'
    BY <1>8, <1>9, Zenon DEF OneFrame, Single, In
  <1>11. AnsweredByStage'
    <2>1. tunnelSettled' = tunnelSettled /\ tunnelAnswers' = tunnelAnswers
      BY <1>1
    <2>2. tunnelSettled[r] = FALSE /\ tunnelAnswers[r] = << >>
      BY <1>0, <1>2 DEF AnsweredByStage
    <2>3. ASSUME NEW q \in TunnelRequest, q # r
          PROVE  tunnelStage'[q] = tunnelStage[q] /\ tunnelProxy'[q] = tunnelProxy[q]
      BY <1>6, <2>3
    <2> QED BY <1>0, <1>6, <2>1, <2>2, <2>3 DEF AnsweredByStage
  <1>12. TunnelTypeOK'
    BY <1>0, <1>1, <1>5 DEF TunnelTypeOK, TunnelFrame, TunnelStage
  <1> QED BY <1>10, <1>11, <1>12 DEF TunnelInv

LEMMA TunnelInvStays == TunnelInv /\ [TunnelNext]_tunnelVars => TunnelInv'
  <1> SUFFICES ASSUME TunnelInv, [TunnelNext]_tunnelVars PROVE TunnelInv'
    OBVIOUS
  <1>1. CASE UNCHANGED tunnelVars
    <2>1. TunnelTypeOK /\ OneFrame /\ AnsweredByStage
      BY DEF TunnelInv
    <2>2. /\ UNCHANGED <<tunnelFrames, tunnelStage, tunnelSettled, tunnelAnswers, tunnelProxy>>
          /\ tunnelPorts' = tunnelPorts
      BY <1>1 DEF tunnelVars
    <2>3. TunnelTypeOK'
      BY <2>1, <2>2 DEF TunnelTypeOK
    <2> QED BY <2>1, <2>2, <2>3, TunnelSame DEF TunnelInv
  <1>2. CASE TunnelNext
    BY <1>2, MembersKeepTunnel, RequestKeepsTunnel, ProxyKeepsTunnel DEF TunnelNext
  <1> QED BY <1>1, <1>2

\* Whichever of response, error, time-out and refusal comes first, and whatever
\* comes after it, the one that asked gets one answer and no second, and has it
\* when the request is done with (portTunnel.ts: handleTunnelRequest,
\* localRequest, sendResponse).
THEOREM RequestsAnsweredOnce == TunnelSpec => [](TunnelTypeOK /\ AnsweredOnce /\ AnsweredWhenOver)
  <1>1. TunnelInv => TunnelTypeOK /\ AnsweredOnce /\ AnsweredWhenOver
    <2> SUFFICES ASSUME TunnelInv PROVE AnsweredOnce /\ AnsweredWhenOver
      BY DEF TunnelInv
    <2>1. ASSUME NEW r \in TunnelRequest
          PROVE  /\ tunnelAnswers[r] = << >> \/ Len(tunnelAnswers[r]) = 1
                 /\ tunnelStage[r] = "over" => Len(tunnelAnswers[r]) = 1
      BY DEF TunnelInv, TunnelTypeOK, TunnelStage, AnsweredByStage
    <2>2. Len(<< >>) = 0
      OBVIOUS
    <2>3. ASSUME NEW r \in TunnelRequest
          PROVE  /\ Len(tunnelAnswers[r]) <= 1
                 /\ tunnelStage[r] = "over" => tunnelAnswers[r] # << >>
      <3>1. CASE tunnelAnswers[r] = << >>
        BY <2>1, <2>2, <3>1
      <3>2. CASE Len(tunnelAnswers[r]) = 1
        <4>1. Len(tunnelAnswers[r]) <= 1
          BY <3>2
        <4>2. tunnelAnswers[r] # << >>
          <5>1. 1 # 0
            OBVIOUS
          <5> QED BY <2>2, <3>2, <5>1, Zenon
        <4> QED BY <4>1, <4>2
      <3> QED BY <2>1, <3>1, <3>2
    <2> QED BY <2>3, Zenon DEF AnsweredOnce, AnsweredWhenOver
  <1>2. TunnelSpec => []TunnelInv
    BY TunnelInvHolds, TunnelInvStays, PTL DEF TunnelSpec
  <1> QED BY <1>1, <1>2, PTL

-----------------------------------------------------------------------------
(* Presence.                                                               *)

NodeFrame == {"CURSOR_UPDATE", "TYPING_INDICATOR", "USER_LEFT"} \X Typist
PresenceTyped ==
    /\ presenceNode \in Seq(NodeFrame)
    /\ cursors \in [Typist -> {"none", "still", "typing"}]
    /\ typingTimers \in [Typist -> {"none", "running", "fired"}]

\* The node tells of a departure after everything it relays from the one who left.
DepartureIsLast ==
    \A u \in Typist \ presenceRoom : \A i \in 1 .. Len(presenceNode) :
        presenceNode[i][2] = u => \E j \in i .. Len(presenceNode) : presenceNode[j] = <<"USER_LEFT", u>>

PresenceInv == PresenceTyped /\ TypingIsTimed /\ OnlyLateGhosts /\ DepartureIsLast

LEMMA PresenceInvHolds == PresenceInit => PresenceInv
  BY DEF PresenceInit, PresenceInv, PresenceTyped, TypingIsTimed, OnlyLateGhosts, DepartureIsLast

\* Frames that are added leave a departure that is on its way on its way.
LEMMA AddedFrames ==
    ASSUME PresenceInv, NEW f \in NodeFrame, presenceNode' = Append(presenceNode, f),
           presenceRoom' \subseteq presenceRoom,
           \A v \in Typist : v \notin presenceRoom' => v \notin presenceRoom \/ f = <<"USER_LEFT", v>>,
           f[2] \in presenceRoom' \/ f[1] = "USER_LEFT",
           UNCHANGED <<cursors, presenceLate>>
    PROVE  presenceNode' \in Seq(NodeFrame) /\ OnlyLateGhosts' /\ DepartureIsLast'
  <1>0. presenceNode \in Seq(NodeFrame) /\ OnlyLateGhosts /\ DepartureIsLast
    BY DEF PresenceInv, PresenceTyped
  <1>1. /\ presenceNode' \in Seq(NodeFrame) /\ Len(presenceNode') = Len(presenceNode) + 1
        /\ Len(presenceNode) \in Nat /\ presenceNode'[Len(presenceNode) + 1] = f
        /\ \A i \in 1 .. Len(presenceNode) : presenceNode'[i] = presenceNode[i]
    BY <1>0
  <1>2. ASSUME NEW v \in Typist, HasLeft(v)' PROVE HasLeft(v)
    <2>1. v \notin presenceRoom'
      BY <1>2 DEF HasLeft
    <2>2. \A i \in 1 .. Len(presenceNode') : presenceNode'[i] # <<"USER_LEFT", v>>
      BY <1>2 DEF HasLeft
    <2>3. f # <<"USER_LEFT", v>>
      <3>1. Len(presenceNode) + 1 \in 1 .. Len(presenceNode')
        BY <1>1
      <3> QED BY <1>1, <2>2, <3>1
    <2>4. \A i \in 1 .. Len(presenceNode) : presenceNode[i] # <<"USER_LEFT", v>>
      BY <1>1, <2>2
    <2> QED BY <2>1, <2>3, <2>4 DEF HasLeft
  <1>3. OnlyLateGhosts'
    BY <1>0, <1>2 DEF OnlyLateGhosts
  <1>4. ASSUME NEW v \in Typist \ presenceRoom', NEW i \in 1 .. Len(presenceNode'), presenceNode'[i][2] = v
        PROVE  \E j \in i .. Len(presenceNode') : presenceNode'[j] = <<"USER_LEFT", v>>
    <2>1. CASE f = <<"USER_LEFT", v>>
      <3>1. Len(presenceNode) + 1 \in i .. Len(presenceNode')
        BY <1>1
      <3> QED BY <1>1, <2>1, <3>1
    <2>2. CASE f # <<"USER_LEFT", v>>
      <3>1. v \notin presenceRoom
        BY <2>2
      <3>2. i # Len(presenceNode) + 1
        <4>1. f[2] # v
          <5>1. f[2] = v => f = <<"USER_LEFT", v>>
            BY <1>4 DEF NodeFrame
          <5> QED BY <2>2, <5>1
        <4> QED BY <1>1, <1>4, <4>1
      <3>3. i \in 1 .. Len(presenceNode) /\ presenceNode[i][2] = v
        BY <1>1, <1>4, <3>2
      <3>4. PICK j \in i .. Len(presenceNode) : presenceNode[j] = <<"USER_LEFT", v>>
        BY <1>0, <3>1, <3>3 DEF DepartureIsLast
      <3>5. j \in 1 .. Len(presenceNode) /\ j \in i .. Len(presenceNode')
        BY <1>1, <3>3, <3>4
      <3> QED BY <1>1, <3>4, <3>5
    <2> QED BY <2>1, <2>2
  <1> QED BY <1>1, <1>3, <1>4 DEF DepartureIsLast

LEMMA HearNodeKeeps ==
    ASSUME PresenceInv, HearNode
    PROVE  PresenceInv'
  <1> DEFINE type == Head(presenceNode)[1]
  <1> DEFINE u == Head(presenceNode)[2]
  <1>0. PresenceTyped /\ TypingIsTimed /\ OnlyLateGhosts /\ DepartureIsLast
    BY DEF PresenceInv
  <1>1. /\ presenceNode # << >> /\ presenceNode' = Tail(presenceNode)
        /\ UNCHANGED <<presenceRoom, presenceLate>>
        /\ \/ type = "CURSOR_UPDATE" /\ ApplyRemoteCursor(u) /\ UNCHANGED typingTimers
           \/ type = "TYPING_INDICATOR" /\ SetTyping(u)
           \/ type = "USER_LEFT" /\ RemoveUser(u)
    BY DEF HearNode, presenceRoomVars
  <1>2. /\ presenceNode \in Seq(NodeFrame)
        /\ presenceNode' \in Seq(NodeFrame) /\ Len(presenceNode') = Len(presenceNode) - 1
        /\ Len(presenceNode) \in Nat /\ Len(presenceNode) >= 1
        /\ \A i \in 1 .. Len(presenceNode') : presenceNode'[i] = presenceNode[i + 1] /\ i + 1 \in 1 .. Len(presenceNode)
        /\ Head(presenceNode) = presenceNode[1] /\ presenceNode[1] \in NodeFrame
    BY <1>0, <1>1 DEF PresenceTyped
  <1>3. u \in Typist /\ presenceNode[1] = <<type, u>>
    BY <1>2 DEF NodeFrame
  <1> HIDE DEF type, u
  <1>4. \A i \in 1 .. Len(presenceNode) : i # 1 => i - 1 \in 1 .. Len(presenceNode') /\ presenceNode'[i - 1] = presenceNode[i]
    BY <1>2
  <1>5. PresenceTyped' /\ TypingIsTimed'
    <2>1. cursors[u] \in {"none", "still", "typing"}
      BY <1>0, <1>3 DEF PresenceTyped
    <2>2. CASE ApplyRemoteCursor(u) /\ UNCHANGED typingTimers
      BY <1>0, <1>2, <1>3, <2>2 DEF PresenceTyped, TypingIsTimed, ApplyRemoteCursor
    <2>3. CASE SetTyping(u)
      BY <1>0, <1>2, <1>3, <2>1, <2>3 DEF PresenceTyped, TypingIsTimed, SetTyping
    <2>4. CASE RemoveUser(u)
      BY <1>0, <1>2, <1>3, <2>4 DEF PresenceTyped, TypingIsTimed, RemoveUser
    <2> QED BY <1>1, <2>2, <2>3, <2>4
  <1>6. ASSUME NEW v \in Typist \ presenceRoom', NEW i \in 1 .. Len(presenceNode'), presenceNode'[i][2] = v
        PROVE  \E j \in i .. Len(presenceNode') : presenceNode'[j] = <<"USER_LEFT", v>>
    <2>1. i + 1 \in 1 .. Len(presenceNode) /\ presenceNode[i + 1][2] = v /\ v \notin presenceRoom
      BY <1>1, <1>2, <1>6
    <2>2. PICK j \in (i + 1) .. Len(presenceNode) : presenceNode[j] = <<"USER_LEFT", v>>
      BY <1>0, <2>1 DEF DepartureIsLast
    <2>3. j \in 1 .. Len(presenceNode) /\ j # 1 /\ j - 1 \in i .. Len(presenceNode')
      BY <1>2, <2>1, <2>2
    <2> QED BY <1>4, <2>2, <2>3
  <1>7. ASSUME NEW v \in Typist, HasLeft(v)', cursors'[v] # "none" PROVE v \in presenceLate'
    <2>1. v \notin presenceRoom /\ \A i \in 1 .. Len(presenceNode') : presenceNode'[i] # <<"USER_LEFT", v>>
      BY <1>1, <1>7 DEF HasLeft
    <2>2. CASE v = u
      <3>1. type # "USER_LEFT"
        BY <1>0, <1>1, <1>3, <1>7, <2>2 DEF RemoveUser, PresenceTyped
      \* A departure is behind it, and still is on its way.
      <3>2. PICK j \in 1 .. Len(presenceNode) : presenceNode[j] = <<"USER_LEFT", v>>
        <4>1. presenceNode[1][2] = v /\ 1 \in 1 .. Len(presenceNode)
          BY <1>2, <1>3, <2>2
        <4> QED BY <1>0, <2>1, <4>1 DEF DepartureIsLast
      <3>3. j # 1
        BY <1>3, <3>1, <3>2
      <3> QED BY <1>4, <2>1, <3>2, <3>3
    <2>3. CASE v # u
      <3>1. cursors'[v] = cursors[v]
        BY <1>0, <1>1, <1>3, <2>3 DEF ApplyRemoteCursor, SetTyping, RemoveUser, PresenceTyped
      <3>2. \A i \in 1 .. Len(presenceNode) : presenceNode[i] # <<"USER_LEFT", v>>
        <4>1. presenceNode[1] # <<"USER_LEFT", v>>
          BY <1>3, <2>3
        <4> QED BY <1>4, <2>1, <4>1
      <3>3. HasLeft(v)
        BY <2>1, <3>2 DEF HasLeft
      <3> QED BY <1>0, <1>1, <1>7, <3>1, <3>3 DEF OnlyLateGhosts
    <2> QED BY <2>2, <2>3
  <1> QED BY <1>5, <1>6, <1>7 DEF PresenceInv, DepartureIsLast, OnlyLateGhosts

LEMMA PresenceInvStays == PresenceInv /\ [PresenceNext]_presenceVars => PresenceInv'
  <1> SUFFICES ASSUME PresenceInv, [PresenceNext]_presenceVars PROVE PresenceInv'
    OBVIOUS
  <1>0. PresenceTyped /\ TypingIsTimed /\ OnlyLateGhosts /\ DepartureIsLast
    BY DEF PresenceInv
  <1>a. ASSUME UNCHANGED <<presenceRoom, presenceNode>>
        PROVE  DepartureIsLast' /\ presenceNode' \in Seq(NodeFrame) /\ \A v \in Typist : HasLeft(v)' = HasLeft(v)
    BY <1>0, <1>a DEF DepartureIsLast, HasLeft, PresenceTyped
  <1>1. ASSUME NEW u \in Typist, SendPresence(u) PROVE PresenceInv'
    <2>1. /\ u \in presenceRoom
          /\ UNCHANGED <<presenceRoom, cursors, typingTimers, presenceLate>>
      BY <1>1 DEF SendPresence
    <2>2. CASE UNCHANGED presenceNode
      BY <1>0, <1>a, <2>1, <2>2 DEF PresenceInv, PresenceTyped, TypingIsTimed, OnlyLateGhosts
    <2>3. ASSUME NEW type \in {"CURSOR_UPDATE", "TYPING_INDICATOR"}, presenceNode' = Append(presenceNode, <<type, u>>)
          PROVE  PresenceInv'
      <3> DEFINE f == <<type, u>>
      <3>1. f \in NodeFrame /\ f[2] \in presenceRoom' /\ presenceNode' = Append(presenceNode, f)
        BY <2>1, <2>3 DEF NodeFrame
      <3> HIDE DEF f
      <3>2. presenceNode' \in Seq(NodeFrame) /\ OnlyLateGhosts' /\ DepartureIsLast'
        BY <2>1, <3>1, AddedFrames
      <3> QED BY <1>0, <2>1, <3>2 DEF PresenceInv, PresenceTyped, TypingIsTimed
    <2> QED BY <1>1, <2>2, <2>3 DEF SendPresence
  <1>2. ASSUME NEW u \in Typist, LeaveRoom(u) PROVE PresenceInv'
    <2> DEFINE f == <<"USER_LEFT", u>>
    <2>1. /\ presenceRoom' = presenceRoom \ {u} /\ presenceNode' = Append(presenceNode, f)
          /\ UNCHANGED <<cursors, typingTimers, presenceLate>>
      BY <1>2 DEF LeaveRoom
    <2>2. f \in NodeFrame /\ f[1] = "USER_LEFT"
      BY DEF NodeFrame
    <2>3. \A v \in Typist : v \notin presenceRoom' => v \notin presenceRoom \/ f = <<"USER_LEFT", v>>
      BY <2>1
    <2> HIDE DEF f
    <2>4. presenceNode' \in Seq(NodeFrame) /\ OnlyLateGhosts' /\ DepartureIsLast'
      BY <2>1, <2>2, <2>3, AddedFrames
    <2> QED BY <1>0, <2>1, <2>4 DEF PresenceInv, PresenceTyped, TypingIsTimed
  <1>3. ASSUME NEW u \in Typist, HearMesh(u) PROVE PresenceInv'
    <2>1. /\ cursors' = [cursors EXCEPT ![u] = "still"]
          /\ presenceLate' = IF HasLeft(u) THEN presenceLate \cup {u} ELSE presenceLate
          /\ UNCHANGED <<presenceRoom, presenceNode, typingTimers>>
      BY <1>3 DEF HearMesh, ApplyRemoteCursor, presenceRoomVars
    <2>2. PresenceTyped' /\ TypingIsTimed'
      BY <1>0, <1>a, <2>1 DEF PresenceTyped, TypingIsTimed
    <2>3. OnlyLateGhosts'
      BY <1>0, <1>a, <2>1 DEF PresenceTyped, OnlyLateGhosts
    <2> QED BY <1>a, <2>1, <2>2, <2>3 DEF PresenceInv
  <1>4. ASSUME NEW u \in Typist, TypingTimerFires(u) PROVE PresenceInv'
    <2>1. /\ cursors' = [cursors EXCEPT ![u] = IF @ = "none" THEN @ ELSE "still"]
          /\ typingTimers' = [typingTimers EXCEPT ![u] = "fired"]
          /\ UNCHANGED <<presenceRoom, presenceNode, presenceLate>>
      BY <1>4 DEF TypingTimerFires, presenceRoomVars
    <2>2. PresenceTyped' /\ TypingIsTimed'
      BY <1>0, <1>a, <2>1 DEF PresenceTyped, TypingIsTimed
    <2>3. OnlyLateGhosts'
      BY <1>0, <1>a, <2>1 DEF PresenceTyped, OnlyLateGhosts
    <2> QED BY <1>a, <2>1, <2>2, <2>3 DEF PresenceInv
  <1>5. CASE ResetPresence
    <2>1. /\ cursors' = [u \in Typist |-> "none"] /\ typingTimers' = [u \in Typist |-> "none"]
          /\ presenceNode' = << >>
      BY <1>5 DEF ResetPresence
    <2> QED BY <2>1 DEF PresenceInv, PresenceTyped, TypingIsTimed, OnlyLateGhosts, DepartureIsLast
  <1>6. CASE UNCHANGED presenceVars
    BY <1>0, <1>a, <1>6 DEF presenceVars, presenceRoomVars, PresenceInv, PresenceTyped, TypingIsTimed, OnlyLateGhosts
  <1> QED BY <1>1, <1>2, <1>3, <1>4, <1>5, <1>6, HearNodeKeeps DEF PresenceNext

\* Through renewed timers, cursors over two ways, departures and disconnects,
\* nobody is shown typing without a timer that will end it, and no cursor stays
\* of one who left but the one that came after the departure over a channel
\* (presenceService.ts).
THEOREM CursorsAreCurrent == PresenceSpec => [](TypingIsTimed /\ OnlyLateGhosts)
  <1>1. PresenceSpec => []PresenceInv
    BY PresenceInvHolds, PresenceInvStays, PTL DEF PresenceSpec
  <1> QED BY <1>1, PTL DEF PresenceInv

-----------------------------------------------------------------------------
(* Presence: types.                                                        *)

\* What PresenceTyped leaves out.
RoomsTyped ==
    /\ presenceRoom \subseteq Typist /\ presenceMesh \subseteq Typist /\ presenceLate \subseteq Typist
    /\ presenceSent \in [Typist -> Nat] /\ \A u \in Typist : presenceSent[u] \in 0 .. MaxKeys[u]
    /\ presenceResets \in 0 .. MaxResets

LEMMA RoomsTypedStay == RoomsTyped /\ [PresenceNext]_presenceVars => RoomsTyped'
  <1> SUFFICES ASSUME RoomsTyped, [PresenceNext]_presenceVars PROVE RoomsTyped'
    OBVIOUS
  <1>1. ASSUME NEW u \in Typist, SendPresence(u) PROVE RoomsTyped'
    <2>1. /\ presenceSent' = [presenceSent EXCEPT ![u] = @ + 1] /\ presenceSent[u] < MaxKeys[u]
          /\ presenceMesh' \subseteq Typist
          /\ UNCHANGED <<presenceRoom, presenceLate, presenceResets>>
      BY <1>1 DEF SendPresence, RoomsTyped
    <2>2. \A v \in Typist : MaxKeys[v] \in Nat
      BY PresenceAssumption
    <2> QED BY <2>1, <2>2 DEF RoomsTyped
  <1>2. ASSUME NEW u \in Typist, LeaveRoom(u) \/ HearMesh(u) \/ TypingTimerFires(u) PROVE RoomsTyped'
    BY <1>2 DEF LeaveRoom, HearMesh, TypingTimerFires, RoomsTyped, presenceRoomVars
  <1>3. CASE HearNode \/ UNCHANGED presenceVars
    BY <1>3 DEF HearNode, presenceVars, presenceRoomVars, RoomsTyped
  <1>4. CASE ResetPresence
    BY <1>4, PresenceAssumption DEF ResetPresence, RoomsTyped, presenceRoomVars
  <1> QED BY <1>1, <1>2, <1>3, <1>4 DEF PresenceNext

\* Cursors, timers and frames under way are those of the others in the room, and
\* a cursor has one of its states (presenceService.ts).
THEOREM PresenceTypeCorrect == PresenceSpec => []PresenceTypeOK
  <1>1. PresenceInit => RoomsTyped
    BY PresenceAssumption DEF PresenceInit, RoomsTyped
  <1>2. PresenceInv => PresenceTyped
    BY DEF PresenceInv
  <1>3. PresenceTyped /\ RoomsTyped => PresenceTypeOK
    BY DEF PresenceTyped, RoomsTyped, PresenceTypeOK, NodeFrame
  <1> QED BY <1>1, <1>2, <1>3, RoomsTypedStay, PresenceInvHolds, PresenceInvStays, PTL DEF PresenceSpec

-----------------------------------------------------------------------------
(* RoomChat.                                                               *)

\* The lines b that a speaker s has said and did not repeat: a member that shows
\* the lines a and has the lines w under way shows the first h of b, and the rest
\* is to come.  Whatever else of s is under way repeats what comes before it.
Twice(old, line) == old.text = line.text /\ Apart(old.timestamp, line.timestamp) < Window
Told(a, s, b, h, f) ==
    /\ \A i \in 1 .. h : f[i] \in 1 .. Len(a) /\ a[f[i]] = b[i]
    /\ \A i, j \in 1 .. h : i < j => f[i] < f[j]
    /\ \A k \in 1 .. Len(a) : a[k].socketId = s => \E i \in 1 .. h : f[i] = k
ToCome(w, s, b, h, g) ==
    /\ \A i \in h + 1 .. Len(b) : g[i] \in 1 .. Len(w) /\ w[g[i]] = b[i]
    /\ \A i, j \in h + 1 .. Len(b) : i < j => g[i] < g[j]
    /\ \A p \in 1 .. Len(w) : w[p].socketId = s =>
          \/ \E i \in h + 1 .. Len(b) : g[i] = p
          \/ \E i \in 1 .. Len(b) : Twice(b[i], w[p]) /\ (i <= h \/ g[i] < p)
Follows(a, w, s, b) == \E h \in 0 .. Len(b) : \E f, g : Told(a, s, b, h, f) /\ ToCome(w, s, b, h, g)

SaidBy(b, s) ==
    /\ \A i \in 1 .. Len(b) : b[i].socketId = s
    /\ \A i, j \in 1 .. Len(b) : i < j => ~Twice(b[i], b[j])

LEMMA Appended ==
    ASSUME NEW S, NEW q \in Seq(S), NEW x \in S
    PROVE  /\ Append(q, x) \in Seq(S) /\ Len(q) \in Nat /\ Len(Append(q, x)) = Len(q) + 1
           /\ Append(q, x)[Len(q) + 1] = x
           /\ \A i \in 1 .. Len(q) : Append(q, x)[i] = q[i] /\ i \in 1 .. Len(Append(q, x))
           /\ \A i \in 1 .. Len(Append(q, x)) : i \in 1 .. Len(q) \/ i = Len(q) + 1
  OBVIOUS

LEMMA TakenOff ==
    ASSUME NEW S, NEW q \in Seq(S), q # << >>
    PROVE  /\ Tail(q) \in Seq(S) /\ Len(q) \in Nat /\ Len(q) >= 1 /\ Len(Tail(q)) = Len(q) - 1
           /\ Head(q) = q[1] /\ Head(q) \in S /\ 1 \in 1 .. Len(q)
           /\ \A i \in 1 .. Len(Tail(q)) : Tail(q)[i] = q[i + 1] /\ i + 1 \in 1 .. Len(q)
           /\ \A i \in 1 .. Len(q) : i # 1 => i - 1 \in 1 .. Len(Tail(q)) /\ Tail(q)[i - 1] = q[i]
  OBVIOUS

\* What others say changes nothing of it.
LEMMA OthersLineShown ==
    ASSUME NEW a \in Seq(ChatLine), NEW w, NEW s, NEW b \in Seq(ChatLine), NEW x \in ChatLine,
           x.socketId # s, Follows(a, w, s, b)
    PROVE  Follows(Append(a, x), w, s, b)
  <1> DEFINE c == Append(a, x)
  <1>1. PICK h \in 0 .. Len(b) : \E f, g : Told(a, s, b, h, f) /\ ToCome(w, s, b, h, g)
    BY DEF Follows
  <1>2. PICK f, g : Told(a, s, b, h, f) /\ ToCome(w, s, b, h, g)
    BY <1>1
  <1>3. /\ Len(a) \in Nat /\ Len(c) = Len(a) + 1 /\ c[Len(a) + 1] = x
        /\ \A i \in 1 .. Len(a) : c[i] = a[i] /\ i \in 1 .. Len(c)
        /\ \A i \in 1 .. Len(c) : i \in 1 .. Len(a) \/ i = Len(a) + 1
    BY Appended
  <1> HIDE DEF c
  <1>4. Told(c, s, b, h, f)
    BY <1>2, <1>3 DEF Told
  <1>5. Follows(c, w, s, b)
    BY <1>2, <1>4 DEF Follows
  <1> QED BY <1>5 DEF c

LEMMA OthersLineComes ==
    ASSUME NEW a, NEW w \in Seq(ChatLine), NEW s, NEW b \in Seq(ChatLine), NEW x \in ChatLine,
           x.socketId # s, Follows(a, w, s, b)
    PROVE  Follows(a, Append(w, x), s, b)
  <1> DEFINE c == Append(w, x)
  <1>1. PICK h \in 0 .. Len(b) : \E f, g : Told(a, s, b, h, f) /\ ToCome(w, s, b, h, g)
    BY DEF Follows
  <1>2. PICK f, g : Told(a, s, b, h, f) /\ ToCome(w, s, b, h, g)
    BY <1>1
  <1>3. /\ Len(w) \in Nat /\ Len(c) = Len(w) + 1 /\ c[Len(w) + 1] = x
        /\ \A i \in 1 .. Len(w) : c[i] = w[i] /\ i \in 1 .. Len(c)
        /\ \A i \in 1 .. Len(c) : i \in 1 .. Len(w) \/ i = Len(w) + 1
    BY Appended
  <1> HIDE DEF c
  <1>4. ToCome(c, s, b, h, g)
    BY <1>2, <1>3 DEF ToCome
  <1>5. Follows(a, c, s, b)
    BY <1>2, <1>4 DEF Follows
  <1> QED BY <1>5 DEF c

\* The places under way move up when the first line is taken, unless it is one of
\* them.
LEMMA MovedUp ==
    ASSUME NEW w \in Seq(ChatLine), w # << >>, NEW s, NEW b \in Seq(ChatLine), NEW h \in 0 .. Len(b),
           NEW g, ToCome(w, s, b, h, g), \A i \in h + 1 .. Len(b) : g[i] # 1
    PROVE  ToCome(Tail(w), s, b, h, [i \in 1 .. Len(b) |-> g[i] - 1])
  <1> DEFINE c == Tail(w)
  <1> DEFINE k == [i \in 1 .. Len(b) |-> g[i] - 1]
  <1>1. /\ Len(w) \in Nat /\ Len(c) = Len(w) - 1
        /\ \A i \in 1 .. Len(c) : c[i] = w[i + 1] /\ i + 1 \in 1 .. Len(w)
        /\ \A i \in 1 .. Len(w) : i # 1 => i - 1 \in 1 .. Len(c) /\ c[i - 1] = w[i]
    BY TakenOff
  <1>2. Len(b) \in Nat /\ \A i \in h + 1 .. Len(b) : i \in 1 .. Len(b) /\ k[i] = g[i] - 1 /\ g[i] \in 1 .. Len(w)
    BY DEF ToCome
  <1> HIDE DEF c, k
  <1>3. \A i \in h + 1 .. Len(b) : k[i] \in 1 .. Len(c) /\ c[k[i]] = b[i]
    BY <1>1, <1>2 DEF ToCome
  <1>4. ASSUME NEW i \in h + 1 .. Len(b), NEW j \in h + 1 .. Len(b), i < j
        PROVE  k[i] < k[j]
    <2>1. g[i] < g[j]
      BY <1>4 DEF ToCome
    <2>2. k[i] = g[i] - 1 /\ k[j] = g[j] - 1 /\ g[i] \in Int /\ g[j] \in Int
      BY <1>2
    <2> QED BY <2>1, <2>2
  <1>5. ASSUME NEW p \in 1 .. Len(c), c[p].socketId = s
        PROVE  \/ \E i \in h + 1 .. Len(b) : k[i] = p
               \/ \E i \in 1 .. Len(b) : Twice(b[i], c[p]) /\ (i <= h \/ k[i] < p)
    <2>1. p + 1 \in 1 .. Len(w) /\ c[p] = w[p + 1] /\ p \in Nat
      BY <1>1
    <2>2. CASE \E i \in h + 1 .. Len(b) : g[i] = p + 1
      BY <1>2, <2>1, <2>2
    <2>3. ASSUME NEW i \in 1 .. Len(b), Twice(b[i], w[p + 1]), i <= h \/ g[i] < p + 1
          PROVE  \E j \in 1 .. Len(b) : Twice(b[j], c[p]) /\ (j <= h \/ k[j] < p)
      <3>1. CASE i <= h
        BY <2>1, <2>3, <3>1
      <3>2. CASE ~(i <= h)
        <4>1. i \in h + 1 .. Len(b)
          BY <3>2
        <4>2. k[i] < p
          BY <1>2, <2>1, <2>3, <3>2, <4>1
        <4> QED BY <2>1, <2>3, <4>2
      <3> QED BY <3>1, <3>2
    <2> QED BY <1>5, <2>1, <2>2, <2>3 DEF ToCome
  <1>6. ToCome(c, s, b, h, k)
    BY <1>3, <1>4, <1>5 DEF ToCome
  <1> QED BY <1>6 DEF c, k

LEMMA OthersLineTaken ==
    ASSUME NEW a, NEW w \in Seq(ChatLine), w # << >>, NEW s, NEW b \in Seq(ChatLine), SaidBy(b, s),
           Head(w).socketId # s, Follows(a, w, s, b)
    PROVE  Follows(a, Tail(w), s, b)
  <1>1. PICK h \in 0 .. Len(b) : \E f, g : Told(a, s, b, h, f) /\ ToCome(w, s, b, h, g)
    BY DEF Follows
  <1>2. PICK f, g : Told(a, s, b, h, f) /\ ToCome(w, s, b, h, g)
    BY <1>1
  <1>3. \A i \in h + 1 .. Len(b) : g[i] # 1
    <2>1. Head(w) = w[1]
      BY TakenOff
    <2>2. \A i \in h + 1 .. Len(b) : i \in 1 .. Len(b)
      OBVIOUS
    <2> QED BY <1>2, <2>1, <2>2 DEF ToCome, SaidBy
  <1>4. ToCome(Tail(w), s, b, h, [i \in 1 .. Len(b) |-> g[i] - 1])
    BY <1>2, <1>3, MovedUp
  <1> DEFINE k == [i \in 1 .. Len(b) |-> g[i] - 1]
  <1>5. ToCome(Tail(w), s, b, h, k)
    BY <1>4
  <1> HIDE DEF k
  <1> QED BY <1>2, <1>5 DEF Follows

\* Whether a member takes a line for a repetition depends on what it has been told.
LEMMA Repeats ==
    ASSUME NEW a \in Seq(ChatLine), NEW s, NEW b \in Seq(ChatLine), SaidBy(b, s), NEW h \in 0 .. Len(b),
           NEW f, Told(a, s, b, h, f), NEW x \in ChatLine, x.socketId = s
    PROVE  IsDuplicate(a, x) <=> \E i \in 1 .. h : Twice(b[i], x)
  <1>1. DOMAIN a = 1 .. Len(a)
    OBVIOUS
  <1>2. ASSUME IsDuplicate(a, x)
        PROVE  \E i \in 1 .. h : Twice(b[i], x)
    <2>1. PICK k \in 1 .. Len(a) : /\ a[k].socketId = x.socketId /\ a[k].text = x.text
                                   /\ Apart(a[k].timestamp, x.timestamp) < Window
      BY <1>1, <1>2 DEF IsDuplicate, ToSet
    <2>2. PICK i \in 1 .. h : f[i] = k
      BY <2>1 DEF Told
    <2>3. a[k] = b[i]
      BY <2>2 DEF Told
    <2> QED BY <2>1, <2>3 DEF Twice
  <1>3. ASSUME NEW i \in 1 .. h, Twice(b[i], x)
        PROVE  IsDuplicate(a, x)
    <2>1. f[i] \in 1 .. Len(a) /\ a[f[i]] = b[i]
      BY DEF Told
    <2>2. a[f[i]] \in ToSet(a) /\ i \in 1 .. Len(b)
      BY <1>1, <2>1 DEF ToSet
    <2>3. b[i].socketId = s
      BY <2>2 DEF SaidBy
    <2> QED BY <1>3, <2>1, <2>2, <2>3 DEF IsDuplicate, Twice
  <1> QED BY <1>2, <1>3

\* A member comes to the next line of the speaker, or to a repetition of what it shows.
LEMMA OwnLineTaken ==
    ASSUME NEW a \in Seq(ChatLine), NEW w \in Seq(ChatLine), w # << >>, NEW s,
           NEW b \in Seq(ChatLine), SaidBy(b, s), Head(w).socketId = s, Follows(a, w, s, b)
    PROVE  Follows(IF IsDuplicate(a, Head(w)) THEN a ELSE Append(a, Head(w)), Tail(w), s, b)
  <1> DEFINE x == Head(w)
  <1> DEFINE v == Tail(w)
  <1> DEFINE c == Append(a, x)
  <1>1. PICK h \in 0 .. Len(b) : \E f, g : Told(a, s, b, h, f) /\ ToCome(w, s, b, h, g)
    BY DEF Follows
  <1>2. PICK f, g : Told(a, s, b, h, f) /\ ToCome(w, s, b, h, g)
    BY <1>1
  <1>3. x \in ChatLine /\ x = w[1] /\ 1 \in 1 .. Len(w) /\ x.socketId = s
    BY TakenOff
  <1>4. /\ c \in Seq(ChatLine) /\ Len(a) \in Nat /\ Len(c) = Len(a) + 1 /\ c[Len(a) + 1] = x
        /\ \A i \in 1 .. Len(a) : c[i] = a[i] /\ i \in 1 .. Len(c)
        /\ \A i \in 1 .. Len(c) : i \in 1 .. Len(a) \/ i = Len(a) + 1
    BY <1>3, Appended
  <1>5. IsDuplicate(a, x) <=> \E i \in 1 .. h : Twice(b[i], x)
    <2> HIDE DEF x
    <2> QED BY <1>2, <1>3, Repeats
  <1>6. Len(b) \in Nat
    OBVIOUS
  <1>m. ASSUME NEW n \in 0 .. Len(b), ToCome(w, s, b, n, g), \A i \in n + 1 .. Len(b) : g[i] # 1
        PROVE  \E k : ToCome(v, s, b, n, k)
    BY <1>m, MovedUp
  <1> HIDE DEF c, v
  <1>7. CASE \E i \in h + 1 .. Len(b) : g[i] = 1
    <2>1. PICK i \in h + 1 .. Len(b) : g[i] = 1
      BY <1>7
    <2>2. h + 1 \in h + 1 .. Len(b) /\ h + 1 \in 0 .. Len(b) /\ h + 1 \in 1 .. Len(b) /\ h \in Nat
      BY <1>6, <2>1
    <2>3. i = h + 1
      BY <1>2, <2>1, <2>2 DEF ToCome
    <2>4. x = b[h + 1]
      BY <1>2, <1>3, <2>1, <2>3 DEF ToCome
    <2>5. \A n \in 1 .. h : n \in 1 .. Len(b) /\ n < h + 1
      BY <1>6
    <2>6. ~IsDuplicate(a, x)
      BY <1>5, <2>2, <2>4, <2>5 DEF SaidBy
    <2>7. Twice(x, x)
      BY <1>3, ChatAssumption DEF Twice, Apart, ChatLine
    <2> DEFINE e == [n \in 1 .. h + 1 |-> IF n = h + 1 THEN Len(a) + 1 ELSE f[n]]
    <2>8. e[h + 1] = Len(a) + 1 /\ \A n \in 1 .. h : e[n] = f[n]
      BY <1>6
    <2> HIDE DEF e, x
    <2>9. Told(c, s, b, h + 1, e)
      <3>1. \A n \in 1 .. h + 1 : n \in 1 .. h \/ n = h + 1
        BY <1>6
      <3>2. ASSUME NEW n \in 1 .. h + 1
            PROVE  e[n] \in 1 .. Len(c) /\ c[e[n]] = b[n]
        <4>1. CASE n = h + 1
          <5>1. Len(a) + 1 \in 1 .. Len(c)
            BY <1>4
          <5> QED BY <1>4, <2>4, <2>8, <4>1, <5>1
        <4>2. CASE n \in 1 .. h
          <5>1. f[n] \in 1 .. Len(a) /\ a[f[n]] = b[n] /\ e[n] = f[n]
            BY <1>2, <2>8, <4>2 DEF Told
          <5> QED BY <1>4, <5>1
        <4> QED BY <3>1, <4>1, <4>2
      <3>3. ASSUME NEW n \in 1 .. h + 1, NEW l \in 1 .. h + 1, n < l
            PROVE  e[n] < e[l]
        <4>1. n \in 1 .. h /\ f[n] \in 1 .. Len(a)
          BY <1>2, <3>1, <3>3 DEF Told
        <4>2. CASE l = h + 1
          BY <1>4, <2>8, <4>1, <4>2
        <4>3. CASE l \in 1 .. h
          BY <1>2, <2>8, <3>3, <4>1, <4>3 DEF Told
        <4> QED BY <3>1, <4>2, <4>3
      <3>4. ASSUME NEW k \in 1 .. Len(c), c[k].socketId = s
            PROVE  \E n \in 1 .. h + 1 : e[n] = k
        <4>1. CASE k = Len(a) + 1
          BY <2>8, <4>1
        <4>2. CASE k \in 1 .. Len(a)
          <5>1. PICK n \in 1 .. h : f[n] = k
            BY <1>2, <1>4, <3>4, <4>2 DEF Told
          <5>2. n \in 1 .. h + 1
            BY <1>6
          <5> QED BY <2>8, <5>1, <5>2, Zenon
        <4> QED BY <1>4, <4>1, <4>2
      <3> QED BY <3>2, <3>3, <3>4 DEF Told
    <2>10. ToCome(w, s, b, h + 1, g)
      <3>1. \A n \in (h + 1) + 1 .. Len(b) : n \in h + 1 .. Len(b)
        BY <1>6
      <3>2. \A n \in h + 1 .. Len(b) : n = h + 1 \/ n \in (h + 1) + 1 .. Len(b)
        BY <1>6
      <3>3. ASSUME NEW p \in 1 .. Len(w), w[p].socketId = s
            PROVE  \/ \E n \in (h + 1) + 1 .. Len(b) : g[n] = p
                   \/ \E n \in 1 .. Len(b) : Twice(b[n], w[p]) /\ (n <= h + 1 \/ g[n] < p)
        <4>1. CASE \E n \in h + 1 .. Len(b) : g[n] = p
          <5>1. PICK n \in h + 1 .. Len(b) : g[n] = p
            BY <4>1
          <5>2. CASE n = h + 1
            <6>1. w[p] = x
              BY <1>3, <2>1, <2>3, <5>1, <5>2
            <6> QED BY <2>2, <2>4, <2>7, <6>1
          <5> QED BY <3>2, <5>1, <5>2
        <4>2. CASE \E n \in 1 .. Len(b) : Twice(b[n], w[p]) /\ (n <= h \/ g[n] < p)
          <5>1. PICK n \in 1 .. Len(b) : Twice(b[n], w[p]) /\ (n <= h \/ g[n] < p)
            BY <4>2
          <5>2. n <= h => n <= h + 1
            OBVIOUS
          <5> QED BY <5>1, <5>2
        <4> QED BY <1>2, <3>3, <4>1, <4>2 DEF ToCome
      <3> QED BY <1>2, <3>1, <3>3 DEF ToCome
    <2>11. \A n \in (h + 1) + 1 .. Len(b) : g[n] # 1
      <3>1. \A n \in (h + 1) + 1 .. Len(b) : n \in h + 1 .. Len(b) /\ h + 1 < n
        BY <1>6
      <3> QED BY <1>2, <2>1, <2>2, <2>3, <3>1 DEF ToCome
    <2>12. \E k : ToCome(v, s, b, h + 1, k)
      BY <1>m, <2>2, <2>10, <2>11
    <2>13. Follows(c, v, s, b)
      BY <2>2, <2>9, <2>12 DEF Follows
    <2> QED BY <2>6, <2>13 DEF c, v, x
  <1>8. CASE \A i \in h + 1 .. Len(b) : g[i] # 1
    <2>1. PICK i \in 1 .. Len(b) : Twice(b[i], x) /\ (i <= h \/ g[i] < 1)
      BY <1>2, <1>3, <1>8 DEF ToCome
    <2>2. i \in 1 .. h
      <3>1. CASE ~(i <= h)
        <4>1. i \in h + 1 .. Len(b)
          BY <3>1
        <4>2. g[i] \in 1 .. Len(w)
          BY <1>2, <4>1 DEF ToCome
        <4> QED BY <2>1, <3>1, <4>2
      <3> QED BY <3>1
    <2>3. IsDuplicate(a, x)
      BY <1>5, <2>1, <2>2
    <2>4. \E k : ToCome(v, s, b, h, k)
      BY <1>m, <1>2, <1>8
    <2>5. Follows(a, v, s, b)
      BY <1>2, <2>4 DEF Follows
    <2> QED BY <2>3, <2>5 DEF v, x
  <1> QED BY <1>7, <1>8

\* What the speaker says next, if it does not repeat itself.
Also(b, x) == IF \E i \in 1 .. Len(b) : Twice(b[i], x) THEN b ELSE Append(b, x)

LEMMA SaysMore ==
    ASSUME NEW s, NEW b \in Seq(ChatLine), SaidBy(b, s), NEW x \in ChatLine, x.socketId = s
    PROVE  Also(b, x) \in Seq(ChatLine) /\ SaidBy(Also(b, x), s)
  <1> DEFINE c == Append(b, x)
  <1>1. CASE \E i \in 1 .. Len(b) : Twice(b[i], x)
    BY <1>1 DEF Also
  <1>2. CASE ~\E i \in 1 .. Len(b) : Twice(b[i], x)
    <2>1. /\ c \in Seq(ChatLine) /\ Len(b) \in Nat /\ Len(c) = Len(b) + 1 /\ c[Len(b) + 1] = x
          /\ \A i \in 1 .. Len(b) : c[i] = b[i] /\ i \in 1 .. Len(c)
          /\ \A i \in 1 .. Len(c) : i \in 1 .. Len(b) \/ i = Len(b) + 1
      BY Appended
    <2>2. Also(b, x) = c
      BY <1>2 DEF Also
    <2> HIDE DEF c
    <2>3. \A i \in 1 .. Len(c) : c[i].socketId = s
      BY <2>1 DEF SaidBy
    <2>4. ASSUME NEW i \in 1 .. Len(c), NEW j \in 1 .. Len(c), i < j
          PROVE  ~Twice(c[i], c[j])
      <3>1. i \in 1 .. Len(b) /\ c[i] = b[i]
        BY <2>1, <2>4
      <3>2. CASE j \in 1 .. Len(b)
        BY <2>1, <2>4, <3>1, <3>2 DEF SaidBy
      <3>3. CASE j = Len(b) + 1
        BY <1>2, <2>1, <3>1, <3>3
      <3> QED BY <2>1, <3>2, <3>3
    <2> QED BY <2>1, <2>2, <2>3, <2>4 DEF SaidBy
  <1> QED BY <1>1, <1>2

\* The speaker has been told all of it: nothing it said comes back to it.
LEMMA SpeakerShows ==
    ASSUME NEW a \in Seq(ChatLine), NEW w \in Seq(ChatLine), NEW s, NEW b \in Seq(ChatLine),
           SaidBy(b, s), Follows(a, w, s, b), NEW x \in ChatLine, x.socketId = s,
           \A p \in 1 .. Len(w) : w[p].socketId # s
    PROVE  Follows(IF IsDuplicate(a, x) THEN a ELSE Append(a, x), w, s, Also(b, x))
  <1> DEFINE c == Append(a, x)
  <1> DEFINE d == Append(b, x)
  <1>1. PICK h \in 0 .. Len(b) : \E f, g : Told(a, s, b, h, f) /\ ToCome(w, s, b, h, g)
    BY DEF Follows
  <1>2. PICK f, g : Told(a, s, b, h, f) /\ ToCome(w, s, b, h, g)
    BY <1>1
  <1>3. Len(b) \in Nat /\ Len(a) \in Nat
    OBVIOUS
  <1>4. h = Len(b)
    <2>1. CASE h # Len(b)
      <3>1. h + 1 \in h + 1 .. Len(b) /\ h + 1 \in 1 .. Len(b)
        BY <1>3, <2>1
      <3> QED BY <1>2, <3>1 DEF ToCome, SaidBy
    <2> QED BY <2>1
  <1>5. IsDuplicate(a, x) <=> \E i \in 1 .. Len(b) : Twice(b[i], x)
    BY <1>2, <1>4, Repeats
  <1>6. CASE \E i \in 1 .. Len(b) : Twice(b[i], x)
    BY <1>5, <1>6 DEF Also
  <1>7. CASE ~\E i \in 1 .. Len(b) : Twice(b[i], x)
    <2>1. /\ Len(c) = Len(a) + 1 /\ c[Len(a) + 1] = x
          /\ \A i \in 1 .. Len(a) : c[i] = a[i] /\ i \in 1 .. Len(c)
          /\ \A i \in 1 .. Len(c) : i \in 1 .. Len(a) \/ i = Len(a) + 1
      BY Appended
    <2>2. /\ Len(d) = Len(b) + 1 /\ d[Len(b) + 1] = x
          /\ \A i \in 1 .. Len(b) : d[i] = b[i]
          /\ \A i \in 1 .. Len(d) : i \in 1 .. Len(b) \/ i = Len(b) + 1
      BY Appended
    <2> HIDE DEF c, d
    <2> DEFINE e == [n \in 1 .. Len(b) + 1 |-> IF n = Len(b) + 1 THEN Len(a) + 1 ELSE f[n]]
    <2>3. e[Len(b) + 1] = Len(a) + 1 /\ \A n \in 1 .. Len(b) : e[n] = f[n]
      BY <1>3
    <2> HIDE DEF e
    <2>4. Told(c, s, d, Len(d), e)
      <3>1. ASSUME NEW n \in 1 .. Len(d)
            PROVE  e[n] \in 1 .. Len(c) /\ c[e[n]] = d[n]
        <4>1. CASE n = Len(b) + 1
          <5>1. Len(a) + 1 \in 1 .. Len(c)
            BY <1>3, <2>1
          <5> QED BY <2>1, <2>2, <2>3, <4>1, <5>1
        <4>2. CASE n \in 1 .. Len(b)
          <5>1. f[n] \in 1 .. Len(a) /\ a[f[n]] = b[n] /\ e[n] = f[n]
            BY <1>2, <1>4, <2>3, <4>2 DEF Told
          <5> QED BY <2>1, <2>2, <4>2, <5>1
        <4> QED BY <2>2, <4>1, <4>2
      <3>2. ASSUME NEW n \in 1 .. Len(d), NEW l \in 1 .. Len(d), n < l
            PROVE  e[n] < e[l]
        <4>1. n \in 1 .. Len(b) /\ f[n] \in 1 .. Len(a)
          BY <1>2, <1>3, <1>4, <2>2, <3>2 DEF Told
        <4>2. CASE l = Len(b) + 1
          <5>1. e[n] = f[n] /\ e[l] = Len(a) + 1
            BY <2>3, <4>1, <4>2, Zenon
          <5> QED BY <1>3, <4>1, <5>1
        <4>3. CASE l \in 1 .. Len(b)
          BY <1>2, <1>4, <2>3, <3>2, <4>1, <4>3 DEF Told
        <4> QED BY <2>2, <4>2, <4>3
      <3>3. ASSUME NEW k \in 1 .. Len(c), c[k].socketId = s
            PROVE  \E n \in 1 .. Len(d) : e[n] = k
        <4>1. CASE k = Len(a) + 1
          BY <1>3, <2>2, <2>3, <4>1
        <4>2. CASE k \in 1 .. Len(a)
          <5>1. PICK n \in 1 .. Len(b) : f[n] = k
            BY <1>2, <1>4, <2>1, <3>3, <4>2 DEF Told
          <5>2. n \in 1 .. Len(d)
            BY <1>3, <2>2
          <5> QED BY <2>3, <5>1, <5>2
        <4> QED BY <2>1, <4>1, <4>2
      <3> QED BY <3>1, <3>2, <3>3 DEF Told
    <2>5. ToCome(w, s, d, Len(d), g)
      BY <1>3, <2>2 DEF ToCome
    <2>6. Len(d) \in 0 .. Len(d)
      BY <1>3, <2>2
    <2>7. Follows(c, w, s, d)
      BY <2>4, <2>5, <2>6 DEF Follows
    <2> QED BY <1>5, <1>7, <2>7 DEF Also, c, d
  <1> QED BY <1>6, <1>7

LEMMA OwnLineComes ==
    ASSUME NEW a \in Seq(ChatLine), NEW w \in Seq(ChatLine), NEW s, NEW b \in Seq(ChatLine),
           SaidBy(b, s), Follows(a, w, s, b), NEW x \in ChatLine, x.socketId = s
    PROVE  Follows(a, Append(w, x), s, Also(b, x))
  <1> DEFINE v == Append(w, x)
  <1> DEFINE d == Append(b, x)
  <1>1. PICK h \in 0 .. Len(b) : \E f, g : Told(a, s, b, h, f) /\ ToCome(w, s, b, h, g)
    BY DEF Follows
  <1>2. PICK f, g : Told(a, s, b, h, f) /\ ToCome(w, s, b, h, g)
    BY <1>1
  <1>3. /\ Len(b) \in Nat /\ Len(w) \in Nat /\ Len(v) = Len(w) + 1 /\ v[Len(w) + 1] = x
        /\ \A i \in 1 .. Len(w) : v[i] = w[i] /\ i \in 1 .. Len(v)
        /\ \A i \in 1 .. Len(v) : i \in 1 .. Len(w) \/ i = Len(w) + 1
    BY Appended
  <1>4. CASE \E i \in 1 .. Len(b) : Twice(b[i], x)
    <2>1. PICK i \in 1 .. Len(b) : Twice(b[i], x)
      BY <1>4
    <2>2. i <= h \/ g[i] < Len(w) + 1
      <3>1. CASE ~(i <= h)
        <4>1. i \in h + 1 .. Len(b)
          BY <3>1
        <4>2. g[i] \in 1 .. Len(w)
          BY <1>2, <4>1 DEF ToCome
        <4> QED BY <1>3, <4>2
      <3> QED BY <3>1
    <2> HIDE DEF v
    <2>3. ToCome(v, s, b, h, g)
      <3>1. ASSUME NEW p \in 1 .. Len(v), v[p].socketId = s
            PROVE  \/ \E n \in h + 1 .. Len(b) : g[n] = p
                   \/ \E n \in 1 .. Len(b) : Twice(b[n], v[p]) /\ (n <= h \/ g[n] < p)
        <4>1. CASE p = Len(w) + 1
          BY <1>3, <2>1, <2>2, <4>1
        <4>2. CASE p \in 1 .. Len(w)
          BY <1>2, <1>3, <3>1, <4>2 DEF ToCome
        <4> QED BY <1>3, <4>1, <4>2
      <3>2. \A n \in h + 1 .. Len(b) : g[n] \in 1 .. Len(v) /\ v[g[n]] = b[n]
        BY <1>2, <1>3 DEF ToCome
      <3> QED BY <1>2, <3>1, <3>2 DEF ToCome
    <2>4. Follows(a, v, s, b)
      BY <1>2, <2>3 DEF Follows
    <2> QED BY <1>4, <2>4 DEF Also, v
  <1>5. CASE ~\E i \in 1 .. Len(b) : Twice(b[i], x)
    <2>1. /\ Len(d) = Len(b) + 1 /\ d[Len(b) + 1] = x
          /\ \A i \in 1 .. Len(b) : d[i] = b[i] /\ i \in 1 .. Len(d)
          /\ \A i \in 1 .. Len(d) : i \in 1 .. Len(b) \/ i = Len(b) + 1
      BY Appended
    <2> DEFINE e == [n \in 1 .. Len(b) + 1 |-> IF n = Len(b) + 1 THEN Len(w) + 1 ELSE g[n]]
    <2>2. e[Len(b) + 1] = Len(w) + 1 /\ \A n \in 1 .. Len(b) : e[n] = g[n]
      BY <1>3
    <2> HIDE DEF v, d, e
    <2>3. \A n \in h + 1 .. Len(d) : n \in h + 1 .. Len(b) \/ n = Len(b) + 1
      BY <1>3, <2>1
    <2>4. \A n \in h + 1 .. Len(b) : n \in 1 .. Len(b) /\ n \in h + 1 .. Len(d)
      BY <1>3, <2>1
    <2>5. h \in 0 .. Len(d) /\ Len(b) + 1 \in h + 1 .. Len(d)
      BY <1>3, <2>1
    <2>6. Told(a, s, d, h, f)
      <3>1. \A n \in 1 .. h : n \in 1 .. Len(b)
        BY <1>3
      <3> QED BY <1>2, <2>1, <3>1 DEF Told
    <2>7. ToCome(v, s, d, h, e)
      <3>1. ASSUME NEW n \in h + 1 .. Len(d)
            PROVE  e[n] \in 1 .. Len(v) /\ v[e[n]] = d[n]
        <4>1. CASE n = Len(b) + 1
          <5>1. Len(w) + 1 \in 1 .. Len(v)
            BY <1>3
          <5> QED BY <1>3, <2>1, <2>2, <4>1, <5>1
        <4>2. CASE n \in h + 1 .. Len(b)
          <5>1. n \in 1 .. Len(b)
            BY <2>4, <4>2
          <5>2. g[n] \in 1 .. Len(w) /\ w[g[n]] = b[n] /\ e[n] = g[n]
            BY <1>2, <2>2, <4>2, <5>1 DEF ToCome
          <5> QED BY <1>3, <2>1, <5>1, <5>2
        <4> QED BY <2>3, <4>1, <4>2
      <3>2. ASSUME NEW n \in h + 1 .. Len(d), NEW l \in h + 1 .. Len(d), n < l
            PROVE  e[n] < e[l]
        <4>1. n \in h + 1 .. Len(b) /\ n \in 1 .. Len(b)
          BY <1>3, <2>1, <2>3, <2>4, <3>2
        <4>2. g[n] \in 1 .. Len(w) /\ e[n] = g[n]
          BY <1>2, <2>2, <4>1 DEF ToCome
        <4>3. CASE l = Len(b) + 1
          BY <1>3, <2>2, <4>2, <4>3
        <4>4. CASE l \in h + 1 .. Len(b)
          BY <1>2, <2>2, <2>4, <3>2, <4>1, <4>2, <4>4 DEF ToCome
        <4> QED BY <2>3, <4>3, <4>4
      <3>3. ASSUME NEW p \in 1 .. Len(v), v[p].socketId = s
            PROVE  \/ \E n \in h + 1 .. Len(d) : e[n] = p
                   \/ \E n \in 1 .. Len(d) : Twice(d[n], v[p]) /\ (n <= h \/ e[n] < p)
        <4>1. CASE p = Len(w) + 1
          BY <2>2, <2>5, <4>1
        <4>2. CASE p \in 1 .. Len(w) /\ \E n \in h + 1 .. Len(b) : g[n] = p
          BY <2>2, <2>4, <4>2
        <4>3. CASE p \in 1 .. Len(w) /\ \E n \in 1 .. Len(b) : Twice(b[n], w[p]) /\ (n <= h \/ g[n] < p)
          BY <1>3, <2>1, <2>2, <4>3
        <4>4. CASE p \in 1 .. Len(w)
          <5>1. w[p].socketId = s
            BY <1>3, <3>3, <4>4
          <5> QED BY <1>2, <4>2, <4>3, <4>4, <5>1 DEF ToCome
        <4> QED BY <1>3, <4>1, <4>4
      <3> QED BY <3>1, <3>2, <3>3 DEF ToCome
    <2>8. Follows(a, v, s, d)
      BY <2>5, <2>6, <2>7 DEF Follows
    <2> QED BY <1>5, <2>8 DEF Also, v, d
  <1> QED BY <1>4, <1>5

-----------------------------------------------------------------------------
(* The room.                                                               *)

ChatTyped ==
    /\ chatMessages \in [Speaker -> Seq(ChatLine)]
    /\ chatWire \in [Speaker -> Seq(ChatLine)]
    /\ chatTime \in 0 .. MaxChatTime
NoEcho == \A m \in Speaker : \A p \in 1 .. Len(chatWire[m]) : chatWire[m][p].socketId # m
Heard(b, s) ==
    /\ SaidBy(b, s)
    /\ \A m \in Speaker : Len(chatMessages[m]) < KeepLines => Follows(chatMessages[m], chatWire[m], s, b)
OneStory == \A s \in Speaker : \E b \in Seq(ChatLine) : Heard(b, s)

ChatInv == ChatTyped /\ NoEcho /\ OneStory

LEMMA ChatInvInit == ChatInit => ChatInv
  <1> SUFFICES ASSUME ChatInit PROVE ChatInv
    OBVIOUS
  <1>1. ChatTyped
    BY ChatAssumption DEF ChatInit, ChatTyped
  <1>2. NoEcho
    BY DEF ChatInit, NoEcho
  <1>3. ASSUME NEW s \in Speaker
        PROVE  Heard(<< >>, s)
    <2>1. Told(<< >>, s, << >>, 0, << >>) /\ ToCome(<< >>, s, << >>, 0, << >>)
      BY DEF Told, ToCome
    <2>2. Follows(<< >>, << >>, s, << >>)
      BY <2>1 DEF Follows
    <2> QED BY <2>2 DEF ChatInit, Heard, SaidBy
  <1>4. << >> \in Seq(ChatLine)
    OBVIOUS
  <1> QED BY <1>1, <1>2, <1>3, <1>4 DEF ChatInv, OneStory

\* While a member keeps fewer lines than it may, it has dropped none.
LEMMA NotTrimmed ==
    ASSUME NEW a \in Seq(ChatLine), NEW x \in ChatLine
    PROVE  /\ WithLine(a, x) \in Seq(ChatLine)
           /\ Len(WithLine(a, x)) < KeepLines =>
                 /\ Len(a) < KeepLines
                 /\ WithLine(a, x) = IF IsDuplicate(a, x) THEN a ELSE Append(a, x)
  <1> DEFINE c == Append(a, x)
  <1>1. CASE IsDuplicate(a, x)
    BY <1>1 DEF WithLine
  <1>2. CASE ~IsDuplicate(a, x)
    <2>1. c \in Seq(ChatLine) /\ Len(a) \in Nat /\ Len(c) = Len(a) + 1
      BY Appended
    <2>2. WithLine(a, x) = Trimmed(c)
      BY <1>2 DEF WithLine
    <2> HIDE DEF c
    <2>3. CASE Len(c) > KeepLines
      <3>1. Trimmed(c) = Tail(c) /\ c # << >>
        BY <2>1, <2>3, ChatAssumption DEF Trimmed
      <3>2. Tail(c) \in Seq(ChatLine) /\ Len(Tail(c)) = Len(c) - 1
        BY <2>1, <3>1
      <3> QED BY <2>1, <2>2, <2>3, <3>1, <3>2, ChatAssumption
    <2>4. CASE ~(Len(c) > KeepLines)
      <3>1. Trimmed(c) = c
        BY <2>4 DEF Trimmed
      <3>2. Len(c) < KeepLines => Len(a) < KeepLines
        BY <2>1, ChatAssumption
      <3> QED BY <1>2, <2>1, <2>2, <3>1, <3>2 DEF c
    <2> QED BY <2>3, <2>4
  <1> QED BY <1>1, <1>2

LEMMA SendChatKeeps ==
    ASSUME ChatInv, NEW t \in Speaker, NEW text \in ChatText, SendChat(t, text)
    PROVE  ChatInv'
  <1> DEFINE x == [socketId |-> t, text |-> text, timestamp |-> chatTime]
  <1>1. x \in ChatLine /\ x.socketId = t
    BY DEF ChatInv, ChatTyped, ChatLine
  <1>2. /\ chatMessages' = [chatMessages EXCEPT ![t] = WithLine(@, x)]
        /\ chatWire' = [m \in Speaker |-> IF m = t THEN chatWire[m] ELSE Append(chatWire[m], x)]
        /\ chatTime' = chatTime
    BY DEF SendChat
  <1> HIDE DEF x
  <1>3. \A m \in Speaker : chatMessages[m] \in Seq(ChatLine) /\ chatWire[m] \in Seq(ChatLine)
    BY DEF ChatInv, ChatTyped
  <1>4. /\ chatMessages'[t] = WithLine(chatMessages[t], x) /\ chatWire'[t] = chatWire[t]
        /\ \A m \in Speaker : m # t => /\ chatMessages'[m] = chatMessages[m]
                                       /\ chatWire'[m] = Append(chatWire[m], x)
    BY <1>2 DEF ChatInv, ChatTyped
  <1>5. ChatTyped'
    <2>1. WithLine(chatMessages[t], x) \in Seq(ChatLine)
      BY <1>1, <1>3, NotTrimmed
    <2>2. \A m \in Speaker : Append(chatWire[m], x) \in Seq(ChatLine)
      BY <1>1, <1>3
    <2> QED BY <1>2, <1>3, <2>1, <2>2 DEF ChatInv, ChatTyped
  <1>6. NoEcho'
    <2>1. ASSUME NEW m \in Speaker, NEW p \in 1 .. Len(chatWire'[m])
          PROVE  chatWire'[m][p].socketId # m
      <3>1. CASE m = t
        BY <1>4, <2>1, <3>1 DEF ChatInv, NoEcho
      <3>2. CASE m # t
        <4> DEFINE w == chatWire[m]
        <4>1. w \in Seq(ChatLine) /\ chatWire'[m] = Append(w, x)
          BY <1>3, <1>4, <3>2
        <4>2. \A i \in 1 .. Len(w) : w[i].socketId # m
          BY DEF ChatInv, NoEcho
        <4> HIDE DEF w
        <4>3. /\ Append(w, x)[Len(w) + 1] = x
              /\ \A i \in 1 .. Len(w) : Append(w, x)[i] = w[i]
              /\ \A i \in 1 .. Len(Append(w, x)) : i \in 1 .. Len(w) \/ i = Len(w) + 1
          BY <1>1, <4>1, Appended
        <4>4. p \in 1 .. Len(Append(w, x))
          BY <2>1, <4>1
        <4>5. CASE p = Len(w) + 1
          BY <1>1, <3>2, <4>1, <4>3, <4>5
        <4>6. CASE p \in 1 .. Len(w)
          BY <4>1, <4>2, <4>3, <4>6
        <4> QED BY <4>3, <4>4, <4>5, <4>6
      <3> QED BY <3>1, <3>2
    <2> QED BY <2>1 DEF NoEcho
  <1>7. ASSUME NEW s \in Speaker
        PROVE  \E d \in Seq(ChatLine) : Heard(d, s)'
    <2>1. PICK b \in Seq(ChatLine) : Heard(b, s)
      BY DEF ChatInv, OneStory
    <2>2. SaidBy(b, s)
      BY <2>1 DEF Heard
    <2>3. \A m \in Speaker : Len(chatMessages[m]) < KeepLines => Follows(chatMessages[m], chatWire[m], s, b)
      BY <2>1 DEF Heard
    <2>4. CASE s = t
      <3>1. Also(b, x) \in Seq(ChatLine) /\ SaidBy(Also(b, x), s)
        BY <1>1, <2>2, <2>4, SaysMore
      <3>2. ASSUME NEW m \in Speaker, Len(chatMessages'[m]) < KeepLines
            PROVE  Follows(chatMessages'[m], chatWire'[m], s, Also(b, x))
        <4>1. CASE m = t
          <5>1. /\ Len(chatMessages[m]) < KeepLines
                /\ chatMessages'[m] = IF IsDuplicate(chatMessages[m], x) THEN chatMessages[m]
                                                                         ELSE Append(chatMessages[m], x)
            BY <1>1, <1>3, <1>4, <3>2, <4>1, NotTrimmed
          <5>2. \A p \in 1 .. Len(chatWire[m]) : chatWire[m][p].socketId # s
            BY <2>4, <4>1 DEF ChatInv, NoEcho
          <5>3. Follows(chatMessages[m], chatWire[m], s, b)
            BY <2>3, <5>1
          <5>4. Follows(IF IsDuplicate(chatMessages[m], x) THEN chatMessages[m] ELSE Append(chatMessages[m], x),
                        chatWire[m], s, Also(b, x))
            BY <1>1, <1>3, <2>2, <2>4, <5>2, <5>3, SpeakerShows
          <5> QED BY <1>4, <4>1, <5>1, <5>4
        <4>2. CASE m # t
          <5>1. chatMessages'[m] = chatMessages[m] /\ chatWire'[m] = Append(chatWire[m], x)
            BY <1>4, <4>2
          <5>2. Follows(chatMessages[m], chatWire[m], s, b)
            BY <2>3, <3>2, <5>1
          <5>3. Follows(chatMessages[m], Append(chatWire[m], x), s, Also(b, x))
            BY <1>1, <1>3, <2>2, <2>4, <5>2, OwnLineComes
          <5> QED BY <5>1, <5>3
        <4> QED BY <4>1, <4>2
      <3> DEFINE d == Also(b, x)
      <3>3. d \in Seq(ChatLine) /\ SaidBy(d, s) /\ d = Also(b, x)
        BY <3>1
      <3> HIDE DEF d
      <3>4. PICK e \in Seq(ChatLine) : SaidBy(e, s) /\ e = Also(b, x)
        BY <3>3
      <3>5. Heard(e, s)'
        BY <3>2, <3>4 DEF Heard
      <3> QED BY <3>5
    <2>5. CASE s # t
      <3>1. ASSUME NEW m \in Speaker, Len(chatMessages'[m]) < KeepLines
            PROVE  Follows(chatMessages'[m], chatWire'[m], s, b)
        <4>1. CASE m = t
          <5>1. /\ Len(chatMessages[m]) < KeepLines
                /\ chatMessages'[m] = IF IsDuplicate(chatMessages[m], x) THEN chatMessages[m]
                                                                         ELSE Append(chatMessages[m], x)
            BY <1>1, <1>3, <1>4, <3>1, <4>1, NotTrimmed
          <5>2. Follows(chatMessages[m], chatWire[m], s, b)
            BY <2>3, <5>1
          <5>3. Follows(Append(chatMessages[m], x), chatWire[m], s, b)
            BY <1>1, <1>3, <2>5, <5>2, OthersLineShown
          <5> QED BY <1>4, <4>1, <5>1, <5>2, <5>3
        <4>2. CASE m # t
          <5>1. chatMessages'[m] = chatMessages[m] /\ chatWire'[m] = Append(chatWire[m], x)
            BY <1>4, <4>2
          <5>2. Follows(chatMessages[m], chatWire[m], s, b)
            BY <2>3, <3>1, <5>1
          <5>3. Follows(chatMessages[m], Append(chatWire[m], x), s, b)
            BY <1>1, <1>3, <2>5, <5>2, OthersLineComes
          <5> QED BY <5>1, <5>3
        <4> QED BY <4>1, <4>2
      <3>2. Heard(b, s)'
        BY <2>2, <3>1 DEF Heard
      <3> QED BY <3>2
    <2> QED BY <2>4, <2>5
  <1> QED BY <1>5, <1>6, <1>7 DEF ChatInv, OneStory

LEMMA ReceiveChatKeeps ==
    ASSUME ChatInv, NEW t \in Speaker, ReceiveChat(t)
    PROVE  ChatInv'
  <1> DEFINE w == chatWire[t]
  <1> DEFINE a == chatMessages[t]
  <1> DEFINE x == Head(chatWire[t])
  <1>1. /\ chatMessages' = [chatMessages EXCEPT ![t] = WithLine(a, x)]
        /\ chatWire' = [chatWire EXCEPT ![t] = Tail(w)]
        /\ chatTime' = chatTime
        /\ w # << >>
    BY DEF ReceiveChat
  <1>2. \A m \in Speaker : chatMessages[m] \in Seq(ChatLine) /\ chatWire[m] \in Seq(ChatLine)
    BY DEF ChatInv, ChatTyped
  <1>3. a \in Seq(ChatLine) /\ w \in Seq(ChatLine)
    BY <1>2
  <1>4. x \in ChatLine /\ Tail(w) \in Seq(ChatLine)
    BY <1>1, <1>3, TakenOff
  <1>5. /\ chatMessages'[t] = WithLine(a, x) /\ chatWire'[t] = Tail(w)
        /\ \A m \in Speaker : m # t => chatMessages'[m] = chatMessages[m] /\ chatWire'[m] = chatWire[m]
    BY <1>1 DEF ChatInv, ChatTyped
  <1>6. x = Head(w)
    OBVIOUS
  <1>7. NoEcho'
    <2>1. \A p \in 1 .. Len(w) : w[p].socketId # t
      BY DEF ChatInv, NoEcho
    <2> HIDE DEF w, a, x
    <2>2. \A i \in 1 .. Len(Tail(w)) : Tail(w)[i] = w[i + 1] /\ i + 1 \in 1 .. Len(w)
      BY <1>1, <1>3, TakenOff
    <2>3. \A i \in 1 .. Len(Tail(w)) : Tail(w)[i].socketId # t
      BY <2>1, <2>2
    <2> QED BY <1>5, <2>3 DEF ChatInv, NoEcho
  <1> HIDE DEF w, a, x
  <1>8. ChatTyped'
    <2>1. WithLine(a, x) \in Seq(ChatLine)
      BY <1>3, <1>4, NotTrimmed
    <2> QED BY <1>1, <1>4, <2>1 DEF ChatInv, ChatTyped
  <1>9. ASSUME NEW s \in Speaker
        PROVE  \E b \in Seq(ChatLine) : Heard(b, s)'
    <2>1. PICK b \in Seq(ChatLine) : Heard(b, s)
      BY DEF ChatInv, OneStory
    <2>2. SaidBy(b, s)
      BY <2>1 DEF Heard
    <2>3. \A m \in Speaker : Len(chatMessages[m]) < KeepLines => Follows(chatMessages[m], chatWire[m], s, b)
      BY <2>1 DEF Heard
    <2>4. ASSUME NEW m \in Speaker, Len(chatMessages'[m]) < KeepLines
          PROVE  Follows(chatMessages'[m], chatWire'[m], s, b)
      <3>1. CASE m # t
        BY <1>5, <2>3, <2>4, <3>1
      <3>2. CASE m = t
        <4>1. /\ Len(a) < KeepLines
              /\ chatMessages'[t] = IF IsDuplicate(a, x) THEN a ELSE Append(a, x)
          BY <1>3, <1>4, <1>5, <2>4, <3>2, NotTrimmed
        <4>2. Follows(a, w, s, b)
          BY <2>3, <4>1 DEF a, w
        <4>3. CASE x.socketId = s
          <5>1. Follows(IF IsDuplicate(a, x) THEN a ELSE Append(a, x), Tail(w), s, b)
            BY <1>1, <1>3, <1>6, <2>2, <4>2, <4>3, OwnLineTaken
          <5> QED BY <1>5, <3>2, <4>1, <5>1
        <4>4. CASE x.socketId # s
          <5>1. Follows(a, Tail(w), s, b)
            BY <1>1, <1>3, <1>6, <2>2, <4>2, <4>4, OthersLineTaken
          <5>2. Follows(Append(a, x), Tail(w), s, b)
            BY <1>3, <1>4, <4>4, <5>1, OthersLineShown
          <5> QED BY <1>5, <3>2, <4>1, <5>1, <5>2
        <4> QED BY <4>3, <4>4
      <3> QED BY <3>1, <3>2
    <2>5. Heard(b, s)'
      BY <2>2, <2>4 DEF Heard
    <2> QED BY <2>5
  <1> QED BY <1>7, <1>8, <1>9 DEF ChatInv, OneStory

LEMMA ChatStep == ChatInv /\ [ChatNext]_chatVars => ChatInv'
  <1> SUFFICES ASSUME ChatInv, [ChatNext]_chatVars PROVE ChatInv'
    OBVIOUS
  <1>1. CASE UNCHANGED chatVars
    BY <1>1 DEF chatVars, ChatInv, ChatTyped, NoEcho, OneStory, Heard
  <1>2. CASE ChatTicks
    <2>1. chatTime' \in 0 .. MaxChatTime
      BY <1>2, ChatAssumption DEF ChatTicks, ChatInv, ChatTyped
    <2>2. chatMessages' = chatMessages /\ chatWire' = chatWire
      BY <1>2 DEF ChatTicks
    <2> QED BY <2>1, <2>2 DEF ChatInv, ChatTyped, NoEcho, OneStory, Heard
  <1>3. ASSUME NEW t \in Speaker, ReceiveChat(t) \/ \E text \in ChatText : SendChat(t, text)
        PROVE  ChatInv'
    BY <1>3, ReceiveChatKeeps, SendChatKeeps
  <1> QED BY <1>1, <1>2, <1>3 DEF ChatNext

\* Who has heard all of what a speaker said shows it in the order it was said.
LEMMA ToldAll ==
    ASSUME NEW a, NEW s, NEW b \in Seq(ChatLine), Follows(a, << >>, s, b)
    PROVE  \E f : Told(a, s, b, Len(b), f)
  <1>1. PICK h \in 0 .. Len(b) : \E f, g : Told(a, s, b, h, f) /\ ToCome(<< >>, s, b, h, g)
    BY DEF Follows
  <1>2. PICK f, g : Told(a, s, b, h, f) /\ ToCome(<< >>, s, b, h, g)
    BY <1>1
  <1>3. h = Len(b)
    <2>1. CASE h # Len(b)
      <3>1. h + 1 \in h + 1 .. Len(b)
        BY <2>1
      <3>2. g[h + 1] \in 1 .. 0
        BY <1>2, <3>1 DEF ToCome
      <3> QED BY <3>2
    <2> QED BY <2>1
  <1> QED BY <1>2, <1>3

LEMMA ShownAlike ==
    ASSUME ChatTyped, NEW m \in Speaker, NEW n \in Speaker, NEW s, NEW b \in Seq(ChatLine), SaidBy(b, s),
           NEW f, Told(chatMessages[m], s, b, Len(b), f), NEW g, Told(chatMessages[n], s, b, Len(b), g)
    PROVE  SameLines(m, n, s)
  <1> DEFINE D == 1 .. Len(b)
  <1> DEFINE which == [k \in LinesBy(m, s) |-> CHOOSE i \in D : f[i] = k]
  <1> DEFINE F == [k \in LinesBy(m, s) |-> g[which[k]]]
  <1>1. /\ DOMAIN chatMessages[m] = 1 .. Len(chatMessages[m])
        /\ DOMAIN chatMessages[n] = 1 .. Len(chatMessages[n])
    BY DEF ChatTyped
  <1>2. \A i \in D : f[i] \in LinesBy(m, s) /\ g[i] \in LinesBy(n, s)
    BY <1>1 DEF Told, LinesBy, SaidBy
  <1>3. \A k \in LinesBy(m, s) : \E i \in D : f[i] = k
    BY <1>1 DEF Told, LinesBy
  <1>4. \A k \in LinesBy(n, s) : \E i \in D : g[i] = k
    BY <1>1 DEF Told, LinesBy
  <1>5. \A k \in LinesBy(m, s) : which[k] \in D /\ f[which[k]] = k
    BY <1>3
  <1>6. \A k \in LinesBy(m, s) : F[k] = g[which[k]] /\ F[k] \in LinesBy(n, s)
    BY <1>2, <1>5
  <1>7. F \in [LinesBy(m, s) -> LinesBy(n, s)]
    BY <1>6
  <1>8. /\ \A i, j \in D : i < j => f[i] < f[j] /\ g[i] < g[j]
        /\ \A i \in D : chatMessages[m][f[i]] = b[i] /\ chatMessages[n][g[i]] = b[i]
    BY DEF Told
  <1>9. LinesBy(m, s) \subseteq Int /\ LinesBy(n, s) \subseteq Int /\ D \subseteq Int
    BY <1>1 DEF LinesBy
  <1>10. DOMAIN F = LinesBy(m, s)
    OBVIOUS
  <1> HIDE DEF D, which, F
  <1>11. \A i \in LinesBy(m, s) : chatMessages[n][F[i]] = chatMessages[m][i]
    BY <1>5, <1>6, <1>8
  <1>12. ASSUME NEW i \in LinesBy(m, s), NEW j \in LinesBy(m, s), i < j
         PROVE  F[i] < F[j]
    <2>1. /\ which[i] \in D /\ which[j] \in D /\ f[which[i]] = i /\ f[which[j]] = j
          /\ which[i] \in Int /\ which[j] \in Int /\ i \in Int /\ j \in Int
      BY <1>5, <1>9
    <2>2. which[i] < which[j]
      <3>1. CASE which[i] = which[j]
        BY <1>12, <2>1, <3>1
      <3>2. CASE which[j] < which[i]
        BY <1>8, <1>12, <2>1, <3>2
      <3> QED BY <2>1, <3>1, <3>2
    <2> QED BY <1>6, <1>8, <2>1, <2>2
  <1>13. IsInjective(F)
    <2>1. ASSUME NEW i \in LinesBy(m, s), NEW j \in LinesBy(m, s), F[i] = F[j]
          PROVE  i = j
      <3>1. i \in Int /\ j \in Int /\ F[i] \in Int /\ F[j] \in Int
        BY <1>6, <1>9
      <3>2. CASE i < j
        BY <1>12, <2>1, <3>1, <3>2
      <3>3. CASE j < i
        BY <1>12, <2>1, <3>1, <3>3
      <3> QED BY <3>1, <3>2, <3>3
    <2> QED BY <1>10, <2>1 DEF IsInjective
  <1>14. ASSUME NEW k \in LinesBy(n, s)
         PROVE  \E i \in LinesBy(m, s) : F[i] = k
    <2>1. PICK i \in D : g[i] = k
      BY <1>4
    <2>2. f[i] \in LinesBy(m, s) /\ which[f[i]] \in D /\ f[which[f[i]]] = f[i] /\ f[i] \in Int
      BY <1>2, <1>5, <1>9
    <2>3. which[f[i]] = i
      <3>1. which[f[i]] \in Int /\ i \in Int
        BY <1>9, <2>2
      <3>2. CASE which[f[i]] < i
        BY <1>8, <2>2, <3>1, <3>2
      <3>3. CASE i < which[f[i]]
        BY <1>8, <2>2, <3>1, <3>3
      <3> QED BY <3>1, <3>2, <3>3
    <2> QED BY <1>6, <2>1, <2>2, <2>3
  <1>15. F \in Bijection(LinesBy(m, s), LinesBy(n, s))
    BY <1>7, <1>13, <1>14 DEF Bijection, Injection, Surjection
  <1> QED BY <1>11, <1>12, <1>15 DEF SameLines

\* Two members that have heard all and dropped nothing show the same lines of every
\* speaker in the same order, though each decides by itself what is a repetition.
THEOREM EverybodyShowsTheSame == ChatSpec => []SameLinesForAll
  <1>1. ChatInv => SameLinesForAll
    <2> SUFFICES ASSUME ChatInv, NEW m \in Speaker, NEW n \in Speaker,
                        \A x \in {m, n} : chatWire[x] = << >> /\ Len(chatMessages[x]) < KeepLines,
                        NEW s \in Speaker
                 PROVE  SameLines(m, n, s)
      BY DEF SameLinesForAll
    <2>1. PICK b \in Seq(ChatLine) : Heard(b, s)
      BY DEF ChatInv, OneStory
    <2>2. ChatTyped /\ SaidBy(b, s)
      BY <2>1 DEF ChatInv, Heard
    <2>3. Follows(chatMessages[m], << >>, s, b) /\ Follows(chatMessages[n], << >>, s, b)
      BY <2>1 DEF Heard
    <2>4. PICK f : Told(chatMessages[m], s, b, Len(b), f)
      BY <2>3, ToldAll
    <2>5. PICK g : Told(chatMessages[n], s, b, Len(b), g)
      BY <2>3, ToldAll
    <2> QED BY <2>2, <2>4, <2>5, ShownAlike
  <1> QED BY <1>1, ChatInvInit, ChatStep, PTL DEF ChatSpec

-----------------------------------------------------------------------------
(* RoomChat: types.                                                        *)

\* A member keeps no more than it may.
FewLines ==
    /\ \A s \in Speaker : Len(chatMessages[s]) <= KeepLines
    /\ chatSaid \in 0 .. MaxLines

LEMMA LineKept ==
    ASSUME NEW a \in Seq(ChatLine), Len(a) <= KeepLines, NEW line \in ChatLine
    PROVE  Len(WithLine(a, line)) <= KeepLines
  <1>1. KeepLines \in Nat
    BY ChatAssumption
  <1> DEFINE b == Append(a, line)
  <1>2. b \in Seq(ChatLine) /\ Len(b) = Len(a) + 1 /\ Len(a) \in Nat
    OBVIOUS
  <1> HIDE DEF b
  <1>3. b # << >> /\ Len(Tail(b)) = Len(b) - 1
    BY <1>2
  <1>4. Len(Trimmed(b)) <= KeepLines
    BY <1>1, <1>2, <1>3 DEF Trimmed
  <1> QED BY <1>4 DEF WithLine, b

LEMMA FewLinesStay == ChatTyped /\ FewLines /\ [ChatNext]_chatVars => FewLines'
  <1> SUFFICES ASSUME ChatTyped, FewLines, [ChatNext]_chatVars PROVE FewLines'
    OBVIOUS
  <1>1. ASSUME NEW s \in Speaker, NEW line \in ChatLine,
               chatMessages' = [chatMessages EXCEPT ![s] = WithLine(@, line)]
        PROVE  \A m \in Speaker : Len(chatMessages'[m]) <= KeepLines
    <2>1. Len(WithLine(chatMessages[s], line)) <= KeepLines
      BY LineKept DEF ChatTyped, FewLines
    <2>2. \A m \in Speaker : chatMessages'[m] = IF m = s THEN WithLine(chatMessages[s], line) ELSE chatMessages[m]
      BY <1>1 DEF ChatTyped
    <2> QED BY <2>1, <2>2 DEF FewLines
  <1>2. ASSUME NEW s \in Speaker, NEW text \in ChatText, SendChat(s, text) PROVE FewLines'
    <2> DEFINE line == [socketId |-> s, text |-> text, timestamp |-> chatTime]
    <2>1. line \in ChatLine
      BY DEF ChatLine, ChatTyped
    <2>2. chatMessages' = [chatMessages EXCEPT ![s] = WithLine(@, line)]
      BY <1>2 DEF SendChat
    <2>3. chatSaid' \in 0 .. MaxLines
      BY <1>2, ChatAssumption DEF SendChat, FewLines
    <2> HIDE DEF line
    <2> QED BY <1>1, <2>1, <2>2, <2>3 DEF FewLines
  <1>3. ASSUME NEW m \in Speaker, ReceiveChat(m) PROVE FewLines'
    <2> DEFINE line == Head(chatWire[m])
    <2>1. line \in ChatLine
      <3>1. chatWire[m] \in Seq(ChatLine) /\ chatWire[m] # << >>
        BY <1>3 DEF ReceiveChat, ChatTyped
      <3> QED BY <3>1
    <2>2. chatMessages' = [chatMessages EXCEPT ![m] = WithLine(@, line)] /\ chatSaid' = chatSaid
      BY <1>3 DEF ReceiveChat
    <2> HIDE DEF line
    <2> QED BY <1>1, <2>1, <2>2 DEF FewLines
  <1>4. CASE ChatTicks \/ UNCHANGED chatVars
    BY <1>4 DEF ChatTicks, chatVars, FewLines
  <1> QED BY <1>2, <1>3, <1>4 DEF ChatNext

\* What a member shows and what is under way to it are lines of the chat, and it
\* never keeps more of them than it may (chatService.ts, trim).
THEOREM ChatTypeCorrect == ChatSpec => []ChatTypeOK
  <1>1. ChatInit => FewLines
    BY ChatAssumption DEF ChatInit, FewLines
  <1>2. ChatInv => ChatTyped
    BY DEF ChatInv
  <1>3. ChatTyped /\ FewLines => ChatTypeOK
    BY DEF ChatTyped, FewLines, ChatTypeOK
  <1> QED BY <1>1, <1>2, <1>3, FewLinesStay, ChatInvInit, ChatStep, PTL DEF ChatSpec
=============================================================================
