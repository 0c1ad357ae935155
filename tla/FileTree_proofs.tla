--------------------------- MODULE FileTree_proofs ---------------------------
(***************************************************************************)
(* Theorems about FileTree for any number of members, paths and touches.   *)
(* People who take turns begin when nothing is under way; what a turn then *)
(* leaves under way brings everybody what the users want (Consistent), and *)
(* whoever lacks it is going to get it (Complete).  Queues are treated as  *)
(* the sets of what they hold: handlers overtake one another anyway.       *)
(***************************************************************************)
EXTENDS FileTree, FiniteSetTheorems, TLAPS
-----------------------------------------------------------------------------
(* What its queues hold, as sets.                                          *)

Holding(s) == {s[i] : i \in 1 .. Len(s)}
\* The frames of the handlers whose file operation has not landed.
Pending(s) == {s[i].frame : i \in {j \in 1 .. Len(s) : ~s[j].landed}}

LEMMA PutLast ==
    ASSUME NEW S, NEW s \in Seq(S), NEW x \in S
    PROVE  /\ Append(s, x) \in Seq(S) /\ Append(s, x) # << >>
           /\ Holding(Append(s, x)) = Holding(s) \cup {x}
  <1> DEFINE t == Append(s, x)
  <1>1. /\ t \in Seq(S) /\ Len(t) = Len(s) + 1 /\ Len(s) \in Nat
        /\ \A i \in 1 .. Len(s) : t[i] = s[i]
        /\ t[Len(s) + 1] = x /\ t # << >>
    OBVIOUS
  <1> HIDE DEF t
  <1>2. /\ \A i \in 1 .. Len(t) : i \in 1 .. Len(s) \/ i = Len(s) + 1
        /\ \A i \in 1 .. Len(s) : i \in 1 .. Len(t)
        /\ Len(s) + 1 \in 1 .. Len(t)
    BY <1>1
  <1>3. Holding(t) = Holding(s) \cup {x}
    BY <1>1, <1>2 DEF Holding
  <1> QED BY <1>1, <1>3 DEF t

LEMMA PutAll ==
    ASSUME NEW S, NEW s \in Seq(S), NEW r \in Seq(S)
    PROVE  /\ s \o r \in Seq(S)
           /\ Holding(s \o r) = Holding(s) \cup Holding(r)
  <1> DEFINE t == s \o r
  <1>1. /\ t \in Seq(S) /\ Len(t) = Len(s) + Len(r) /\ Len(s) \in Nat /\ Len(r) \in Nat
        /\ \A i \in 1 .. Len(s) : t[i] = s[i]
        /\ \A i \in 1 .. Len(r) : t[Len(s) + i] = r[i]
    OBVIOUS
  <1> HIDE DEF t
  <1>2. /\ \A i \in 1 .. Len(t) : i \in 1 .. Len(s) \/ (i - Len(s) \in 1 .. Len(r) /\ Len(s) + (i - Len(s)) = i)
        /\ \A i \in 1 .. Len(s) : i \in 1 .. Len(t)
        /\ \A i \in 1 .. Len(r) : Len(s) + i \in 1 .. Len(t)
    BY <1>1
  <1>3. ASSUME NEW y \in Holding(t) PROVE y \in Holding(s) \cup Holding(r)
    <2>1. PICK i \in 1 .. Len(t) : y = t[i]
      BY DEF Holding
    <2>2. CASE i \in 1 .. Len(s)
      BY <1>1, <2>1, <2>2 DEF Holding
    <2>3. CASE i - Len(s) \in 1 .. Len(r) /\ Len(s) + (i - Len(s)) = i
      <3>1. y = r[i - Len(s)]
        BY <1>1, <2>1, <2>3
      <3> QED BY <2>3, <3>1 DEF Holding
    <2> QED BY <1>2, <2>2, <2>3
  <1>4. Holding(s) \subseteq Holding(t)
    BY <1>1, <1>2 DEF Holding
  <1>5. ASSUME NEW y \in Holding(r) PROVE y \in Holding(t)
    <2>1. PICK i \in 1 .. Len(r) : y = r[i]
      BY DEF Holding
    <2>2. t[Len(s) + i] = y /\ Len(s) + i \in 1 .. Len(t)
      BY <1>1, <1>2, <2>1
    <2> QED BY <2>2 DEF Holding
  <1> QED BY <1>1, <1>3, <1>4, <1>5 DEF t

LEMMA TakeFirst ==
    ASSUME NEW S, NEW s \in Seq(S), s # << >>
    PROVE  /\ Tail(s) \in Seq(S) /\ Head(s) \in S /\ Head(s) \in Holding(s)
           /\ Holding(Tail(s)) \subseteq Holding(s)
           /\ Holding(s) \subseteq Holding(Tail(s)) \cup {Head(s)}
  <1> DEFINE t == Tail(s)
  <1>1. /\ t \in Seq(S) /\ Len(t) = Len(s) - 1 /\ Len(s) \in Nat /\ Len(s) >= 1
        /\ \A i \in 1 .. Len(t) : t[i] = s[i + 1] /\ i + 1 \in 1 .. Len(s)
        /\ Head(s) = s[1] /\ 1 \in 1 .. Len(s) /\ Head(s) \in S
    OBVIOUS
  <1> HIDE DEF t
  <1>2. Head(s) \in Holding(s) /\ Holding(t) \subseteq Holding(s)
    BY <1>1 DEF Holding
  <1>3. ASSUME NEW y \in Holding(s) PROVE y \in Holding(t) \cup {Head(s)}
    <2>1. PICK i \in 1 .. Len(s) : y = s[i]
      BY DEF Holding
    <2>2. i = 1 \/ (i - 1 \in 1 .. Len(t) /\ (i - 1) + 1 = i)
      BY <1>1
    <2>3. CASE i - 1 \in 1 .. Len(t) /\ (i - 1) + 1 = i
      <3>1. y = t[i - 1]
        BY <1>1, <2>1, <2>3
      <3> QED BY <2>3, <3>1 DEF Holding
    <2> QED BY <1>1, <2>1, <2>2, <2>3
  <1> QED BY <1>1, <1>2, <1>3 DEF t

\* What RemoveAt leaves, by places.
LEMMA TakeOut ==
    ASSUME NEW S, NEW s \in Seq(S), NEW i \in 1 .. Len(s)
    PROVE  /\ RemoveAt(s, i) \in Seq(S)
           /\ \A n \in 1 .. Len(RemoveAt(s, i)) : \E j \in 1 .. Len(s) : j # i /\ RemoveAt(s, i)[n] = s[j]
           /\ \A j \in 1 .. Len(s) : j # i => \E n \in 1 .. Len(RemoveAt(s, i)) : RemoveAt(s, i)[n] = s[j]
  <1> DEFINE a == SubSeq(s, 1, i - 1)  b == SubSeq(s, i + 1, Len(s))  t == a \o b
  <1>1. a \in Seq(S) /\ Len(a) = i - 1 /\ \A n \in 1 .. i - 1 : a[n] = s[n]
    OBVIOUS
  <1>2. b \in Seq(S) /\ Len(b) = Len(s) - i /\ \A n \in 1 .. Len(s) - i : b[n] = s[n + i]
    OBVIOUS
  <1>3. RemoveAt(s, i) = t
    BY DEF RemoveAt
  <1> HIDE DEF a, b
  <1>4. /\ Len(t) = Len(a) + Len(b)
        /\ \A n \in 1 .. Len(a) : t[n] = a[n]
        /\ \A n \in 1 .. Len(b) : t[Len(a) + n] = b[n]
        /\ t \in Seq(S) /\ Len(s) \in Nat /\ i \in Nat
    <2>1. a \in Seq(S) /\ b \in Seq(S)
      BY <1>1, <1>2
    <2> QED BY <2>1
  <1> HIDE DEF t
  <1>5. ASSUME NEW n \in 1 .. Len(t) PROVE \E j \in 1 .. Len(s) : j # i /\ t[n] = s[j]
    <2>1. CASE n <= i - 1
      <3>1. n \in 1 .. Len(a) /\ n \in 1 .. Len(s) /\ n # i /\ n \in 1 .. i - 1
        BY <1>1, <1>2, <1>4, <2>1
      <3> QED BY <1>1, <1>4, <3>1
    <2>2. CASE n > i - 1
      <3>1. /\ n - (i - 1) \in 1 .. Len(b) /\ n + 1 \in 1 .. Len(s) /\ n + 1 # i
            /\ Len(a) + (n - (i - 1)) = n /\ (n - (i - 1)) + i = n + 1
            /\ n - (i - 1) \in 1 .. Len(s) - i
        BY <1>1, <1>2, <1>4, <2>2
      <3>2. t[n] = b[n - (i - 1)] /\ b[n - (i - 1)] = s[n + 1]
        BY <1>2, <1>4, <3>1
      <3> QED BY <3>1, <3>2
    <2> QED BY <1>1, <1>2, <1>4, <2>1, <2>2
  <1>6. ASSUME NEW j \in 1 .. Len(s), j # i PROVE \E n \in 1 .. Len(t) : t[n] = s[j]
    <2>1. CASE j < i
      <3>1. j \in 1 .. Len(a) /\ j \in 1 .. Len(t) /\ j \in 1 .. i - 1
        BY <1>1, <1>2, <1>4, <2>1
      <3> QED BY <1>1, <1>4, <3>1
    <2>2. CASE j > i
      <3>1. /\ j - i \in 1 .. Len(b) /\ j - 1 \in 1 .. Len(t) /\ Len(a) + (j - i) = j - 1
            /\ (j - i) + i = j /\ j - i \in 1 .. Len(s) - i
        BY <1>1, <1>2, <1>4, <2>2
      <3>2. t[j - 1] = b[j - i] /\ b[j - i] = s[j]
        BY <1>2, <1>4, <3>1
      <3> QED BY <3>1, <3>2
    <2> QED BY <1>4, <1>6, <2>1, <2>2
  <1> QED BY <1>3, <1>4, <1>5, <1>6

LEMMA HoldingLess ==
    ASSUME NEW S, NEW s \in Seq(S), NEW i \in 1 .. Len(s)
    PROVE  /\ RemoveAt(s, i) \in Seq(S)
           /\ Holding(RemoveAt(s, i)) \subseteq Holding(s)
           /\ Holding(s) \subseteq Holding(RemoveAt(s, i)) \cup {s[i]}
  <1> DEFINE t == RemoveAt(s, i)
  <1>1. /\ t \in Seq(S)
        /\ \A n \in 1 .. Len(t) : \E j \in 1 .. Len(s) : j # i /\ t[n] = s[j]
        /\ \A j \in 1 .. Len(s) : j # i => \E n \in 1 .. Len(t) : t[n] = s[j]
    BY TakeOut
  <1> HIDE DEF t
  <1>2. Holding(t) \subseteq Holding(s)
    BY <1>1 DEF Holding
  <1>3. ASSUME NEW y \in Holding(s) PROVE y \in Holding(t) \cup {s[i]}
    <2>1. PICK j \in 1 .. Len(s) : y = s[j]
      BY DEF Holding
    <2>2. j # i => \E n \in 1 .. Len(t) : t[n] = s[j]
      BY <1>1
    <2> QED BY <2>1, <2>2 DEF Holding
  <1> QED BY <1>1, <1>2, <1>3 DEF t

LEMMA SetInSequence ==
    ASSUME NEW S, IsFiniteSet(S)
    PROVE  SetToSeq(S) \in Seq(S) /\ Holding(SetToSeq(S)) = S
           /\ Len(SetToSeq(S)) = Cardinality(S) /\ Cardinality(S) \in Nat
  <1> DEFINE N == Cardinality(S)  f == SetToSeq(S)
  <1>1. N \in Nat /\ ExistsBijection(1 .. N, S)
    BY FS_CardinalityType
  <1>2. \E g \in [1 .. N -> S] : IsInjective(g)
    BY <1>1 DEF ExistsBijection, Bijection, Injection, IsInjective
  <1>3. f \in [1 .. N -> S] /\ IsInjective(f)
    BY <1>2, Zenon DEF SetToSeq
  <1>4. f \in Injection(1 .. N, S)
    BY <1>3 DEF Injection
  <1> HIDE DEF f
  <1>5. f \in Surjection(1 .. N, S)
    <2>1. IsFiniteSet(1 .. N) /\ Cardinality(1 .. N) = N
      BY <1>1, FS_Interval
    <2> QED BY <1>4, <2>1, FS_Injection
  <1>6. f \in Seq(S) /\ Len(f) = N
    BY <1>1, <1>3
  <1>7. Holding(f) = S
    BY <1>3, <1>5, <1>6 DEF Holding, Surjection
  <1> QED BY <1>1, <1>6, <1>7 DEF f

-----------------------------------------------------------------------------
(* Types.                                                                  *)

Shared == Path \ Ignored
WriteFrame == [type : {"FILE_CREATE", "FILE_CONTENT"}, path : Shared, to : Path \cup Member,
               content : FileContent]
MoveFrame == [type : {"FILE_DELETE", "FILE_RENAME"}, path : Path, to : Path, content : {""}]
RequestFrame == [type : {"FILE_REQUEST"}, path : Shared, to : Member, content : {""}]
ShareFrame == [type : {"ARCH_SHARE"}, path : {""}, to : Member, content : SUBSET Shared]
HandlerFrame == WriteFrame \cup MoveFrame
TreeFrame == HandlerFrame \cup RequestFrame \cup ShareFrame
HandlerRecord == [frame : HandlerFrame, landed : BOOLEAN]
EventRecord == [created : SUBSET Path, deleted : SUBSET Path]

QueuesOK ==
    /\ treeEvents \in [Member -> Seq(EventRecord)]
    /\ treeReads \in [Member -> Seq(Shared)]
    /\ treeTasks \in [Member -> Seq(HandlerRecord)]
    /\ treeInbox \in [Member -> Seq(TreeFrame)]
FilesOK ==
    /\ treeFiles \in [Member -> [Path -> FileContent \cup {"none"}]]
    /\ treeMeant \in [Path -> FileContent \cup {"none", "untouched", "unclear"}]
    /\ treeApplying \in [Member -> BOOLEAN]
SyncOK ==
    /\ treeManifests \in [Member -> [Member -> SUBSET Shared]]
    /\ treeAsked \in [Member -> SUBSET Shared]
    /\ treePulls \in Seq([by : Member, had : SUBSET Shared])
TreeVarsOK == QueuesOK /\ FilesOK /\ SyncOK

LEMMA FramesAre ==
    ASSUME NEW p \in Path, NEW q \in Path, NEW m \in Member
    PROVE  /\ FileFrame("FILE_DELETE", p, q, "") \in MoveFrame
           /\ FileFrame("FILE_RENAME", p, q, "") \in MoveFrame
           /\ p \in Shared => FileFrame("FILE_REQUEST", p, m, "") \in RequestFrame
           /\ \A S \in SUBSET Shared : FileFrame("ARCH_SHARE", "", m, S) \in ShareFrame
           /\ \A c \in FileContent : p \in Shared =>
                 /\ FileFrame("FILE_CREATE", p, q, c) \in WriteFrame
                 /\ FileFrame("FILE_CONTENT", p, m, c) \in WriteFrame
  BY DEF FileFrame, MoveFrame, WriteFrame, RequestFrame, ShareFrame

LEMMA FrameKinds ==
    ASSUME NEW f \in TreeFrame
    PROVE  /\ f.type \in {"FILE_CREATE", "FILE_CONTENT"} => f \in WriteFrame
           /\ f.type \in {"FILE_DELETE", "FILE_RENAME"} => f \in MoveFrame
           /\ f.type = "FILE_REQUEST" => f \in RequestFrame
           /\ f.type = "ARCH_SHARE" => f \in ShareFrame
  BY DEF TreeFrame, HandlerFrame, WriteFrame, MoveFrame, RequestFrame, ShareFrame

LEMMA FewPaths == ASSUME NEW S \in SUBSET Path PROVE IsFiniteSet(S)
  BY MemberAssumption, FS_Subset

-----------------------------------------------------------------------------
(* Handlers under way.                                                     *)

LEMMA PendingMore ==
    ASSUME NEW s \in Seq(HandlerRecord), NEW f \in HandlerFrame
    PROVE  LET t == Append(s, [frame |-> f, landed |-> FALSE])
           IN t \in Seq(HandlerRecord) /\ t # << >> /\ Pending(t) = Pending(s) \cup {f}
  <1> DEFINE x == [frame |-> f, landed |-> FALSE]  t == Append(s, x)
  <1>0. x \in HandlerRecord /\ x.frame = f /\ ~x.landed
    BY DEF HandlerRecord
  <1> HIDE DEF x
  <1>1. /\ t \in Seq(HandlerRecord) /\ Len(t) = Len(s) + 1 /\ Len(s) \in Nat
        /\ \A i \in 1 .. Len(s) : t[i] = s[i]
        /\ t[Len(s) + 1] = x /\ t # << >>
    BY <1>0
  <1> HIDE DEF t
  <1>2. /\ \A i \in 1 .. Len(t) : i \in 1 .. Len(s) \/ i = Len(s) + 1
        /\ \A i \in 1 .. Len(s) : i \in 1 .. Len(t)
        /\ Len(s) + 1 \in 1 .. Len(t)
    BY <1>1
  <1>3. ASSUME NEW g \in Pending(t) PROVE g \in Pending(s) \cup {f}
    BY <1>0, <1>1, <1>2 DEF Pending
  <1>4. ASSUME NEW g \in Pending(s) \cup {f} PROVE g \in Pending(t)
    BY <1>0, <1>1, <1>2 DEF Pending
  <1> QED BY <1>1, <1>3, <1>4 DEF t, x

LEMMA PendingLands ==
    ASSUME NEW s \in Seq(HandlerRecord), NEW i \in 1 .. Len(s), ~s[i].landed
    PROVE  LET t == [s EXCEPT ![i].landed = TRUE]
           IN /\ t \in Seq(HandlerRecord) /\ t # << >>
              /\ Pending(t) \subseteq Pending(s) /\ Pending(s) \subseteq Pending(t) \cup {s[i].frame}
              /\ s[i].frame \in Pending(s) /\ s[i].frame \in HandlerFrame
  <1> DEFINE t == [s EXCEPT ![i].landed = TRUE]
  <1>1. s \in [1 .. Len(s) -> HandlerRecord] /\ Len(s) \in Nat
    OBVIOUS
  <1>2. /\ DOMAIN t = 1 .. Len(s)
        /\ \A j \in 1 .. Len(s) : j # i => t[j] = s[j]
        /\ t[i] = [s[i] EXCEPT !.landed = TRUE]
    BY <1>1
  <1>3. t[i] \in HandlerRecord /\ t[i].landed /\ s[i].frame \in HandlerFrame
    <2>1. s[i] \in [frame : HandlerFrame, landed : BOOLEAN]
      BY <1>1 DEF HandlerRecord
    <2> QED BY <1>2, <2>1 DEF HandlerRecord
  <1>4. t \in Seq(HandlerRecord) /\ t # << >> /\ Len(t) = Len(s)
    <2>1. t \in [1 .. Len(s) -> HandlerRecord]
      <3>1. ASSUME NEW D, NEW R, NEW g \in [D -> R], NEW d \in D, [g[d] EXCEPT !.landed = TRUE] \in R
            PROVE  [g EXCEPT ![d].landed = TRUE] \in [D -> R]
        BY <3>1
      <3>2. [s[i] EXCEPT !.landed = TRUE] \in HandlerRecord
        BY <1>2, <1>3
      <3> QED BY <1>1, <3>1, <3>2
    <2> HIDE DEF t
    <2>2. t \in Seq(HandlerRecord) /\ Len(t) = Len(s)
      BY <1>1, <2>1
    <2> QED BY <1>1, <2>2
  <1> HIDE DEF t
  <1>5. ASSUME NEW g \in Pending(t) PROVE g \in Pending(s)
    <2>1. PICK j \in 1 .. Len(t) : ~t[j].landed /\ g = t[j].frame
      BY DEF Pending
    <2> QED BY <1>2, <1>3, <1>4, <2>1 DEF Pending
  <1>6. ASSUME NEW g \in Pending(s) PROVE g \in Pending(t) \cup {s[i].frame}
    <2>1. PICK j \in 1 .. Len(s) : ~s[j].landed /\ g = s[j].frame
      BY DEF Pending
    <2> QED BY <1>2, <1>4, <2>1 DEF Pending
  <1>7. s[i].frame \in Pending(s)
    BY DEF Pending
  <1> QED BY <1>3, <1>4, <1>5, <1>6, <1>7 DEF t

LEMMA PendingEnds ==
    ASSUME NEW s \in Seq(HandlerRecord), NEW i \in 1 .. Len(s), s[i].landed
    PROVE  RemoveAt(s, i) \in Seq(HandlerRecord) /\ Pending(RemoveAt(s, i)) = Pending(s)
  <1> DEFINE t == RemoveAt(s, i)
  <1>1. /\ t \in Seq(HandlerRecord)
        /\ \A n \in 1 .. Len(t) : \E j \in 1 .. Len(s) : j # i /\ t[n] = s[j]
        /\ \A j \in 1 .. Len(s) : j # i => \E n \in 1 .. Len(t) : t[n] = s[j]
    <2>1. \A S : s \in Seq(S) => 
             /\ t \in Seq(S)
             /\ \A n \in 1 .. Len(t) : \E j \in 1 .. Len(s) : j # i /\ t[n] = s[j]
             /\ \A j \in 1 .. Len(s) : j # i => \E n \in 1 .. Len(t) : t[n] = s[j]
      BY TakeOut
    <2> HIDE DEF t
    <2> QED BY <2>1
  <1> HIDE DEF t
  <1>2. ASSUME NEW g \in Pending(t) PROVE g \in Pending(s)
    <2>1. PICK n \in 1 .. Len(t) : ~t[n].landed /\ g = t[n].frame
      BY DEF Pending
    <2>2. PICK j \in 1 .. Len(s) : t[n] = s[j]
      BY <1>1
    <2> QED BY <2>1, <2>2 DEF Pending
  <1>3. ASSUME NEW g \in Pending(s) PROVE g \in Pending(t)
    <2>1. PICK j \in 1 .. Len(s) : ~s[j].landed /\ g = s[j].frame
      BY DEF Pending
    <2>2. PICK n \in 1 .. Len(t) : t[n] = s[j]
      BY <1>1, <2>1
    <2> QED BY <2>1, <2>2 DEF Pending
  <1> QED BY <1>1, <1>2, <1>3 DEF t

-----------------------------------------------------------------------------
(* What the operations do to the queues, as sets.                          *)

Arriving(m) == Holding(treeInbox[m]) \cup Pending(treeTasks[m])
Reading(m) == Holding(treeReads[m])
Seen(m) == Holding(treeEvents[m])

\* The frames S come to everybody but m.
Reaches(m, S) ==
    /\ treeInbox' \in [Member -> Seq(TreeFrame)]
    /\ Holding(treeInbox'[m]) = Holding(treeInbox[m])
    /\ \A n \in Member \ {m} : Holding(treeInbox'[n]) = Holding(treeInbox[n]) \cup S

LEMMA RelayedAre ==
    ASSUME QueuesOK, NEW m \in Member, NEW fs \in Seq(TreeFrame), treeInbox' = Relayed(treeInbox, m, fs)
    PROVE  Reaches(m, Holding(fs))
  <1>1. \A n \in Member : treeInbox[n] \in Seq(TreeFrame)
    BY DEF QueuesOK
  <1>2. \A n \in Member : /\ treeInbox[n] \o fs \in Seq(TreeFrame)
                          /\ Holding(treeInbox[n] \o fs) = Holding(treeInbox[n]) \cup Holding(fs)
    BY <1>1, PutAll
  <1>3. \A n \in Member : treeInbox'[n] = IF n = m THEN treeInbox[n] ELSE treeInbox[n] \o fs
    BY DEF Relayed
  <1>4. treeInbox' \in [Member -> Seq(TreeFrame)]
    BY <1>1, <1>2 DEF Relayed
  <1> QED BY <1>2, <1>3, <1>4 DEF Reaches

LEMMA OneHeld == ASSUME NEW S, NEW x \in S PROVE << x >> \in Seq(S) /\ Holding(<< x >>) = {x}
  <1>1. << x >> \in Seq(S) /\ Len(<< x >>) = 1 /\ << x >>[1] = x
    OBVIOUS
  <1> QED BY <1>1 DEF Holding

\* The watcher of m, and no other, has the events S to deliver besides.
Tells(m, S) ==
    /\ treeEvents' \in [Member -> Seq(EventRecord)]
    /\ \A n \in Member \ {m} : Seen(n)' = Seen(n)
    /\ Seen(m)' = Seen(m) \cup S

LEMMA ToldNothing ==
    ASSUME QueuesOK, NEW m \in Member, WatcherTold(m, {}, {}) PROVE Tells(m, {})
  BY DEF WatcherTold, Tells, Seen, QueuesOK

LEMMA ToldAre ==
    ASSUME QueuesOK, NEW m \in Member, NEW c \in SUBSET Path, NEW d \in SUBSET Path, WatcherTold(m, c, d),
           c # {} \/ d # {}
    PROVE  Tells(m, {[created |-> c, deleted |-> d]})
  <1> DEFINE e == [created |-> c, deleted |-> d]
  <1>1. e \in EventRecord /\ treeEvents[m] \in Seq(EventRecord)
    BY DEF EventRecord, QueuesOK
  <1> HIDE DEF e
  <1>2. /\ Append(treeEvents[m], e) \in Seq(EventRecord)
        /\ Holding(Append(treeEvents[m], e)) = Holding(treeEvents[m]) \cup {e}
    BY <1>1, PutLast
  <1>3. treeEvents' = [treeEvents EXCEPT ![m] = Append(treeEvents[m], e)]
    BY DEF WatcherTold, e
  <1>4. treeEvents' \in [Member -> Seq(EventRecord)]
    BY <1>2, <1>3 DEF QueuesOK
  <1>5. /\ treeEvents'[m] = Append(treeEvents[m], e)
        /\ \A n \in Member \ {m} : treeEvents'[n] = treeEvents[n]
    BY <1>3 DEF QueuesOK
  <1>6. Tells(m, {e})
    BY <1>2, <1>4, <1>5 DEF Tells, Seen
  <1> QED BY <1>6 DEF e

Deletions(S) == {FileFrame("FILE_DELETE", p, p, "") : p \in S}

LEMMA DeletionsAre ==
    ASSUME NEW S \in SUBSET Path
    PROVE  /\ SetToSeq(Deletions(S)) \in Seq(TreeFrame)
           /\ Holding(SetToSeq(Deletions(S))) = Deletions(S)
  <1>1. IsFiniteSet(Deletions(S))
    <2> DEFINE g == [p \in S |-> FileFrame("FILE_DELETE", p, p, "")]
    <2>1. g \in Surjection(S, Deletions(S))
      BY DEF Surjection, Deletions
    <2> HIDE DEF g
    <2>2. IsFiniteSet(S)
      BY FewPaths
    <2>3. \A T : g \in Surjection(S, T) => IsFiniteSet(T)
      BY <2>2, FS_Surjection
    <2> QED BY <2>1, <2>3
  <1>2. Deletions(S) \subseteq MoveFrame
    <2>1. ASSUME NEW p \in S PROVE FileFrame("FILE_DELETE", p, p, "") \in MoveFrame
      BY DEF FileFrame, MoveFrame
    <2> QED BY <2>1 DEF Deletions
  <1>3. Deletions(S) \subseteq TreeFrame
    BY <1>2 DEF TreeFrame, HandlerFrame
  <1>4. SetToSeq(Deletions(S)) \in Seq(Deletions(S)) /\ Holding(SetToSeq(Deletions(S))) = Deletions(S)
    BY <1>1, SetInSequence
  <1> QED BY <1>3, <1>4

\* A watcher's event is dropped, or read and sent on.
LEMMA DeliverGives ==
    ASSUME QueuesOK, NEW m \in Member, DeliverEvent(m)
    PROVE  /\ QueuesOK'
           /\ \A n \in Member \ {m} : Seen(n)' = Seen(n)
           /\ \E e \in Seen(m) :
                 /\ e \in EventRecord
                 /\ Seen(m)' \subseteq Seen(m) /\ Seen(m) \subseteq Seen(m)' \cup {e}
                 /\ treeApplying[m] => \A n \in Member : Reading(n)' = Reading(n) /\ Arriving(n)' = Arriving(n)
                 /\ ~treeApplying[m] =>
                       /\ Reading(m)' = Reading(m) \cup {p \in e.created : p \in Shared}
                       /\ \A n \in Member \ {m} : Reading(n)' = Reading(n)
                       /\ Arriving(m)' = Arriving(m)
                       /\ \A n \in Member \ {m} : Arriving(n)' = Arriving(n) \cup Deletions(e.deleted)
  <1> DEFINE e == Head(treeEvents[m])
             created == IF treeApplying[m] THEN {} ELSE {p \in e.created : Synced(p)}
             deleted == IF treeApplying[m] THEN {} ELSE e.deleted
  <1>1. treeEvents[m] # << >> /\ treeEvents[m] \in Seq(EventRecord)
    BY DEF DeliverEvent, QueuesOK
  <1>2. /\ Tail(treeEvents[m]) \in Seq(EventRecord) /\ e \in EventRecord /\ e \in Seen(m)
        /\ Holding(Tail(treeEvents[m])) \subseteq Seen(m)
        /\ Seen(m) \subseteq Holding(Tail(treeEvents[m])) \cup {e}
    BY <1>1, TakeFirst DEF Seen
  <1>3. /\ treeEvents' = [treeEvents EXCEPT ![m] = Tail(treeEvents[m])]
        /\ treeReads' = [treeReads EXCEPT ![m] = treeReads[m] \o SetToSeq(created)]
        /\ treeInbox' = Relayed(treeInbox, m, SetToSeq(Deletions(deleted)))
        /\ treeTasks' = treeTasks
    BY DEF DeliverEvent, Deletions
  <1>4. created \in SUBSET Shared /\ deleted \in SUBSET Path /\ created \in SUBSET Path
    BY <1>2 DEF EventRecord, Shared, Synced
  <1>5. ~treeApplying[m] => created = {p \in e.created : p \in Shared}
    BY <1>2 DEF EventRecord, Shared, Synced
  <1>6. treeApplying[m] => created = {} /\ deleted = {}
    OBVIOUS
  <1>7. ~treeApplying[m] => deleted = e.deleted
    OBVIOUS
  <1> HIDE DEF e, created, deleted
  <1>8. SetToSeq(created) \in Seq(Shared) /\ Holding(SetToSeq(created)) = created
    <2>1. SetToSeq(created) \in Seq(created) /\ Holding(SetToSeq(created)) = created
      BY <1>4, FewPaths, SetInSequence
    <2> QED BY <1>4, <2>1
  <1>9. treeReads[m] \in Seq(Shared)
    BY DEF QueuesOK
  <1>10. /\ treeReads[m] \o SetToSeq(created) \in Seq(Shared)
         /\ Holding(treeReads[m] \o SetToSeq(created)) = Reading(m) \cup created
    BY <1>8, <1>9, PutAll DEF Reading
  <1>11. Reaches(m, Deletions(deleted))
    <2>1. /\ SetToSeq(Deletions(deleted)) \in Seq(TreeFrame)
          /\ Holding(SetToSeq(Deletions(deleted))) = Deletions(deleted)
      BY <1>4, DeletionsAre
    <2>2. Reaches(m, Holding(SetToSeq(Deletions(deleted))))
      BY <1>3, <2>1, RelayedAre
    <2> QED BY <2>1, <2>2
  <1>12. QueuesOK'
    BY <1>2, <1>3, <1>10, <1>11 DEF QueuesOK, Reaches
  <1>13. /\ Seen(m)' = Holding(Tail(treeEvents[m]))
         /\ \A n \in Member \ {m} : Seen(n)' = Seen(n)
    BY <1>3 DEF Seen, QueuesOK
  <1>14. /\ Reading(m)' = Reading(m) \cup created
         /\ \A n \in Member \ {m} : Reading(n)' = Reading(n)
    BY <1>3, <1>10 DEF Reading, QueuesOK
  <1>15. /\ Arriving(m)' = Arriving(m)
         /\ \A n \in Member \ {m} : Arriving(n)' = Arriving(n) \cup Deletions(deleted)
    BY <1>3, <1>11 DEF Arriving, Reaches
  <1>16. Deletions({}) = {}
    BY DEF Deletions
  <1>17. treeApplying[m] => \A n \in Member : Reading(n)' = Reading(n) /\ Arriving(n)' = Arriving(n)
    BY <1>6, <1>14, <1>15, <1>16
  <1> QED BY <1>2, <1>5, <1>7, <1>12, <1>13, <1>14, <1>15, <1>17

\* A created file is read and sent.
LEMMA ReadGives ==
    ASSUME QueuesOK, FilesOK, NEW m \in Member, NEW i \in DOMAIN treeReads[m], FileRead(m, i)
    PROVE  /\ QueuesOK'
           /\ \A n \in Member : Seen(n)' = Seen(n)
           /\ \E p \in Reading(m) :
                 LET f == FileFrame("FILE_CREATE", p, p, SentContent(m, p))
                 IN /\ p \in Shared /\ f \in WriteFrame
                    /\ Reading(m)' \subseteq Reading(m) /\ Reading(m) \subseteq Reading(m)' \cup {p}
                    /\ \A n \in Member \ {m} : Reading(n)' = Reading(n)
                    /\ Arriving(m)' = Arriving(m)
                    /\ \A n \in Member \ {m} : Arriving(n)' = Arriving(n) \cup {f}
  <1> DEFINE p == treeReads[m][i]  f == FileFrame("FILE_CREATE", p, p, SentContent(m, p))
  <1>1. treeReads[m] \in Seq(Shared) /\ i \in 1 .. Len(treeReads[m]) /\ p \in Shared /\ p \in Path
    BY DEF QueuesOK, Shared
  <1>2. p \in Reading(m)
    BY <1>1 DEF Reading, Holding
  <1>3. SentContent(m, p) \in FileContent
    BY <1>1 DEF SentContent, Has, FilesOK, FileContent
  <1> HIDE DEF p
  <1>4. f \in WriteFrame /\ f \in TreeFrame
    BY <1>1, <1>3, FramesAre DEF TreeFrame, HandlerFrame
  <1>5. /\ RemoveAt(treeReads[m], i) \in Seq(Shared)
        /\ Holding(RemoveAt(treeReads[m], i)) \subseteq Reading(m)
        /\ Reading(m) \subseteq Holding(RemoveAt(treeReads[m], i)) \cup {p}
    BY <1>1, HoldingLess DEF Reading, p
  <1>6. /\ treeReads' = [treeReads EXCEPT ![m] = RemoveAt(treeReads[m], i)]
        /\ treeInbox' = Relayed(treeInbox, m, << f >>)
        /\ treeTasks' = treeTasks /\ treeEvents' = treeEvents
    BY DEF FileRead, p
  <1> HIDE DEF f
  <1>7. << f >> \in Seq(TreeFrame) /\ Holding(<< f >>) = {f}
    BY <1>4, OneHeld
  <1>8. Reaches(m, {f})
    <2>1. Reaches(m, Holding(<< f >>))
      BY <1>6, <1>7, RelayedAre
    <2> QED BY <1>7, <2>1
  <1>9. QueuesOK'
    BY <1>5, <1>6, <1>8 DEF QueuesOK, Reaches
  <1>10. /\ Reading(m)' = Holding(RemoveAt(treeReads[m], i))
         /\ \A n \in Member \ {m} : Reading(n)' = Reading(n)
    BY <1>6 DEF Reading, QueuesOK
  <1>11. \A n \in Member : Seen(n)' = Seen(n)
    BY <1>6 DEF Seen
  <1>12. /\ Arriving(m)' = Arriving(m)
         /\ \A n \in Member \ {m} : Arriving(n)' = Arriving(n) \cup {f}
    BY <1>6, <1>8 DEF Arriving, Reaches
  <1> QED BY <1>1, <1>2, <1>4, <1>5, <1>9, <1>10, <1>11, <1>12 DEF f

\* A frame starts a handler, asks for a file that is here, or takes nothing.
LEMMA ReceiveGives ==
    ASSUME TreeVarsOK, NEW m \in Member, ReceiveFrame(m)
    PROVE  /\ TreeVarsOK'
           /\ \A n \in Member : Seen(n)' = Seen(n) /\ Reading(n)' = Reading(n)
           /\ \A n \in Member \ {m} : treeTasks'[n] = treeTasks[n] /\ treeApplying'[n] = treeApplying[n]
           /\ \E f \in Arriving(m) :
                 \/ /\ f \in HandlerFrame /\ treeTasks'[m] # << >>
                    /\ \A n \in Member : Arriving(n)' = Arriving(n)
                 \/ /\ f \in RequestFrame /\ Has(m, f.path)
                    /\ treeTasks' = treeTasks /\ treeApplying' = treeApplying
                    /\ LET g == FileFrame("FILE_CONTENT", f.path, f.to, treeFiles[m][f.path])
                       IN /\ g \in WriteFrame
                          /\ \A n \in Member : n = f.to => g \in Arriving(n)'
                          /\ \A n \in Member : Arriving(n)' \subseteq Arriving(n) \cup (IF n = f.to THEN {g} ELSE {})
                          /\ \A n \in Member : Arriving(n) \subseteq Arriving(n)' \cup (IF n = m THEN {f} ELSE {})
                 \/ /\ f \in RequestFrame \cup ShareFrame /\ (f \in RequestFrame => ~Has(m, f.path))
                    /\ treeTasks' = treeTasks /\ treeApplying' = treeApplying
                    /\ Arriving(m)' \subseteq Arriving(m) /\ Arriving(m) \subseteq Arriving(m)' \cup {f}
                    /\ \A n \in Member \ {m} : Arriving(n)' = Arriving(n)
  <1> DEFINE f == Head(treeInbox[m])
             rest == [treeInbox EXCEPT ![m] = Tail(treeInbox[m])]
  <1> USE DEF TreeVarsOK
  <1>1. treeInbox[m] # << >> /\ treeInbox[m] \in Seq(TreeFrame)
    BY DEF ReceiveFrame, QueuesOK
  <1>2. /\ Tail(treeInbox[m]) \in Seq(TreeFrame) /\ f \in TreeFrame /\ f \in Holding(treeInbox[m])
        /\ Holding(Tail(treeInbox[m])) \subseteq Holding(treeInbox[m])
        /\ Holding(treeInbox[m]) \subseteq Holding(Tail(treeInbox[m])) \cup {f}
    BY <1>1, TakeFirst
  <1>3. f \in Arriving(m)
    BY <1>2 DEF Arriving
  <1>4. /\ rest \in [Member -> Seq(TreeFrame)] /\ rest[m] = Tail(treeInbox[m])
        /\ \A n \in Member \ {m} : rest[n] = treeInbox[n]
    BY <1>2 DEF QueuesOK
  <1>5. /\ treeFiles' = treeFiles /\ treeEvents' = treeEvents /\ treeReads' = treeReads
        /\ treePulls' = treePulls /\ treeAsked' = treeAsked /\ treeMeant' = treeMeant
    BY DEF ReceiveFrame, treeUsers
  <1>6. \A n \in Member : Seen(n)' = Seen(n) /\ Reading(n)' = Reading(n)
    BY <1>5 DEF Seen, Reading
  <1>7. CASE /\ f \in HandlerFrame /\ StartTask(m, f)
             /\ treeInbox' = rest /\ treeManifests' = treeManifests
    <2> HIDE DEF f, rest
    <2>1. treeTasks[m] \in Seq(HandlerRecord)
      BY DEF QueuesOK
    <2> DEFINE t == Append(treeTasks[m], [frame |-> f, landed |-> FALSE])
    <2>2. t \in Seq(HandlerRecord) /\ t # << >> /\ Pending(t) = Pending(treeTasks[m]) \cup {f}
      BY <1>7, <2>1, PendingMore
    <2>3. /\ treeTasks' = [treeTasks EXCEPT ![m] = t]
          /\ treeApplying' = [treeApplying EXCEPT ![m] = TRUE]
      BY <1>7 DEF StartTask
    <2> HIDE DEF t
    <2>4. /\ treeTasks'[m] = t /\ treeInbox'[m] = Tail(treeInbox[m])
          /\ \A n \in Member \ {m} :
                treeTasks'[n] = treeTasks[n] /\ treeApplying'[n] = treeApplying[n] /\ treeInbox'[n] = treeInbox[n]
      BY <1>4, <1>7, <2>3 DEF QueuesOK, FilesOK
    <2>5. Arriving(m)' = Arriving(m)
      BY <1>2, <2>2, <2>4 DEF Arriving
    <2>6. \A n \in Member \ {m} : Arriving(n)' = Arriving(n)
      BY <2>4 DEF Arriving
    <2>7. QueuesOK'
      BY <1>4, <1>5, <1>7, <2>2, <2>3 DEF QueuesOK
    <2>8. FilesOK' /\ SyncOK'
      BY <1>5, <1>7, <2>3 DEF FilesOK, SyncOK
    <2>9. \A n \in Member : Arriving(n)' = Arriving(n)
      BY <2>5, <2>6
    <2> QED BY <1>3, <1>6, <1>7, <2>2, <2>4, <2>7, <2>8, <2>9
  <1>8. CASE /\ f \in RequestFrame /\ Has(m, f.path) /\ Synced(f.path)
             /\ treeInbox' = [rest EXCEPT ![f.to] = Append(@,
                    FileFrame("FILE_CONTENT", f.path, f.to, treeFiles[m][f.path]))]
             /\ treeTasks' = treeTasks /\ treeApplying' = treeApplying /\ treeManifests' = treeManifests
    <2> DEFINE g == FileFrame("FILE_CONTENT", f.path, f.to, treeFiles[m][f.path])
    <2> HIDE DEF f, rest
    <2>1. f.path \in Shared /\ f.to \in Member /\ f.path \in Path
      BY <1>8 DEF RequestFrame, Shared
    <2>2. treeFiles[m][f.path] \in FileContent
      BY <1>8, <2>1 DEF Has, FilesOK
    <2>3. g \in WriteFrame /\ g \in TreeFrame
      BY <2>1, <2>2, FramesAre DEF TreeFrame, HandlerFrame
    <2> DEFINE to == Append(rest[f.to], g)
    <2>4. treeInbox' = [rest EXCEPT ![f.to] = to]
      BY <1>8
    <2> HIDE DEF g
    <2>5. to \in Seq(TreeFrame) /\ Holding(to) = Holding(rest[f.to]) \cup {g}
      <3>1. rest[f.to] \in Seq(TreeFrame)
        BY <1>4, <2>1
      <3> QED BY <2>3, <3>1, PutLast
    <2> HIDE DEF to
    <2>6. /\ treeInbox' \in [Member -> Seq(TreeFrame)] /\ treeInbox'[f.to] = to
          /\ \A n \in Member : n # f.to => treeInbox'[n] = rest[n]
      BY <1>4, <2>1, <2>4, <2>5
    <2>7. \A n \in Member : /\ Holding(rest[n]) \subseteq Holding(treeInbox[n])
                            /\ Holding(treeInbox[n]) \subseteq Holding(rest[n]) \cup (IF n = m THEN {f} ELSE {})
      BY <1>2, <1>4
    <2>8. \A n \in Member :
              /\ Arriving(n)' \subseteq Arriving(n) \cup (IF n = f.to THEN {g} ELSE {})
              /\ Arriving(n) \subseteq Arriving(n)' \cup (IF n = m THEN {f} ELSE {})
      <3> TAKE n \in Member
      <3>1. Holding(treeInbox'[n]) = Holding(rest[n]) \cup (IF n = f.to THEN {g} ELSE {})
        BY <2>5, <2>6
      <3>2. Arriving(n)' = Holding(treeInbox'[n]) \cup Pending(treeTasks[n])
        BY <1>8 DEF Arriving
      <3> QED BY <2>7, <3>1, <3>2 DEF Arriving
    <2>9. \A n \in Member : n = f.to => g \in Arriving(n)'
      BY <2>5, <2>6 DEF Arriving
    <2>10. QueuesOK'
      BY <1>5, <1>8, <2>6 DEF QueuesOK
    <2>11. FilesOK' /\ SyncOK'
      BY <1>5, <1>8 DEF FilesOK, SyncOK
    <2> QED BY <1>3, <1>6, <1>8, <2>3, <2>8, <2>9, <2>10, <2>11 DEF g
  <1>9. CASE /\ f \in RequestFrame \cup ShareFrame /\ (f \in RequestFrame => ~Has(m, f.path))
             /\ treeInbox' = rest /\ treeTasks' = treeTasks /\ treeApplying' = treeApplying
             /\ (treeManifests' = treeManifests \/ (f \in ShareFrame
                    /\ treeManifests' = [treeManifests EXCEPT ![m][f.to] = f.content]))
    <2> HIDE DEF f, rest
    <2>1. /\ treeInbox'[m] = Tail(treeInbox[m])
          /\ \A n \in Member \ {m} : treeInbox'[n] = treeInbox[n]
      BY <1>4, <1>9
    <2>2. Arriving(m)' \subseteq Arriving(m) /\ Arriving(m) \subseteq Arriving(m)' \cup {f}
      BY <1>2, <1>9, <2>1 DEF Arriving
    <2>3. \A n \in Member \ {m} : Arriving(n)' = Arriving(n)
      BY <1>9, <2>1 DEF Arriving
    <2>4. QueuesOK'
      BY <1>4, <1>5, <1>9 DEF QueuesOK
    <2>5. FilesOK'
      BY <1>5, <1>9 DEF FilesOK
    <2>6. f \in ShareFrame => f.to \in Member /\ f.content \in SUBSET Shared
      BY DEF ShareFrame
    <2>7. SyncOK'
      <3>1. treeManifests \in [Member -> [Member -> SUBSET Shared]]
        BY DEF SyncOK
      <3>2. f \in ShareFrame =>
                [treeManifests EXCEPT ![m][f.to] = f.content] \in [Member -> [Member -> SUBSET Shared]]
        BY <2>6, <3>1
      <3>3. treeManifests' \in [Member -> [Member -> SUBSET Shared]]
        BY <1>9, <3>1, <3>2
      <3> QED BY <1>5, <3>3 DEF SyncOK
    <2> QED BY <1>3, <1>6, <1>9, <2>2, <2>3, <2>4, <2>5, <2>7
  <1> QED
    <2> HIDE DEF f, rest
    <2>1. /\ f.type \in {"FILE_CREATE", "FILE_CONTENT"} => f \in WriteFrame /\ f \in HandlerFrame /\ Synced(f.path)
          /\ f.type \in {"FILE_DELETE", "FILE_RENAME"} => f \in HandlerFrame
          /\ f.type = "FILE_REQUEST" => f \in RequestFrame /\ Synced(f.path)
          /\ f.type = "ARCH_SHARE" => f \in ShareFrame
      <3>1. f \in WriteFrame \cup RequestFrame => Synced(f.path)
        BY DEF WriteFrame, RequestFrame, Shared, Synced
      <3> QED BY <1>2, <3>1, FrameKinds DEF HandlerFrame
    <2>2. \/ f.type \in {"FILE_CREATE", "FILE_CONTENT"} /\ treeManifests' = treeManifests /\ treeInbox' = rest
             /\ (Synced(f.path) => StartTask(m, f))
          \/ f.type \in {"FILE_DELETE", "FILE_RENAME"} /\ treeManifests' = treeManifests /\ treeInbox' = rest
             /\ StartTask(m, f)
          \/ f.type = "FILE_REQUEST" /\ UNCHANGED << treeTasks, treeApplying, treeManifests >>
             /\ treeInbox' = IF Has(m, f.path) /\ Synced(f.path)
                             THEN [rest EXCEPT ![f.to] = Append(@,
                                    FileFrame("FILE_CONTENT", f.path, f.to, treeFiles[m][f.path]))]
                             ELSE rest
          \/ f.type = "ARCH_SHARE" /\ UNCHANGED << treeTasks, treeApplying >> /\ treeInbox' = rest
             /\ treeManifests' = [treeManifests EXCEPT ![m][f.to] = f.content]
      BY DEF ReceiveFrame, f, rest
    <2>3. \/ /\ f \in HandlerFrame /\ StartTask(m, f)
             /\ treeInbox' = rest /\ treeManifests' = treeManifests
          \/ /\ f \in RequestFrame /\ Synced(f.path)
             /\ UNCHANGED << treeTasks, treeApplying, treeManifests >>
             /\ treeInbox' = IF Has(m, f.path) /\ Synced(f.path)
                             THEN [rest EXCEPT ![f.to] = Append(@,
                                    FileFrame("FILE_CONTENT", f.path, f.to, treeFiles[m][f.path]))]
                             ELSE rest
          \/ f \in ShareFrame /\ UNCHANGED << treeTasks, treeApplying >> /\ treeInbox' = rest
             /\ treeManifests' = [treeManifests EXCEPT ![m][f.to] = f.content]
      BY <2>1, <2>2
    <2>4. f \in ShareFrame => f \notin RequestFrame
      BY DEF ShareFrame, RequestFrame
    <2> QED BY <1>7, <1>8, <1>9, <2>3, <2>4

\* What an operation that lands does to the files, and tells the watcher.
LandsAs(m, f) ==
    \/ /\ f \in WriteFrame
       /\ treeFiles' = [treeFiles EXCEPT ![m][f.path] = f.content]
       /\ Has(m, f.path) => Seen(m)' = Seen(m)
       /\ ~Has(m, f.path) => Seen(m)' = Seen(m) \cup {[created |-> {f.path}, deleted |-> {}]}
    \/ /\ f \in MoveFrame /\ f.type = "FILE_RENAME" /\ Has(m, f.path) /\ ~Has(m, f.to)
       /\ treeFiles' = [treeFiles EXCEPT ![m][f.path] = "none", ![m][f.to] = treeFiles[m][f.path]]
       /\ Seen(m)' = Seen(m) \cup {[created |-> {f.to}, deleted |-> {f.path}]}
    \/ /\ f \in MoveFrame /\ f.type = "FILE_DELETE" /\ Has(m, f.path)
       /\ treeFiles' = [treeFiles EXCEPT ![m][f.path] = "none"]
       /\ Seen(m)' = Seen(m) \cup {[created |-> {}, deleted |-> {f.path}]}
    \/ /\ f \in MoveFrame /\ treeFiles' = treeFiles /\ Seen(m)' = Seen(m)
       /\ f.type = "FILE_DELETE" => ~Has(m, f.path)

LEMMA LandsGives ==
    ASSUME TreeVarsOK, NEW m \in Member, NEW i \in DOMAIN treeTasks[m], TaskLands(m, i)
    PROVE  /\ TreeVarsOK'
           /\ \A n \in Member : Reading(n)' = Reading(n)
           /\ \A n \in Member \ {m} : Seen(n)' = Seen(n) /\ Arriving(n)' = Arriving(n)
           /\ \A n \in Member \ {m} : treeTasks'[n] = treeTasks[n]
           /\ treeTasks'[m] # << >> /\ treeTasks[m] # << >> /\ treeApplying' = treeApplying
           /\ \E f \in Arriving(m) :
                 /\ Arriving(m)' \subseteq Arriving(m) /\ Arriving(m) \subseteq Arriving(m)' \cup {f}
                 /\ LandsAs(m, f)
  <1> DEFINE f == treeTasks[m][i].frame
             writes == f.type \in {"FILE_CREATE", "FILE_CONTENT"}
             renames == f.type = "FILE_RENAME" /\ Rename(m, f.path, f.to)
             deletes == f.type = "FILE_DELETE" /\ Has(m, f.path)
             t == [treeTasks[m] EXCEPT ![i].landed = TRUE]
  <1> USE DEF TreeVarsOK
  <1>0. ~treeTasks[m][i].landed
    BY Zenon DEF TaskLands
  <1>1. treeTasks[m] \in Seq(HandlerRecord) /\ i \in 1 .. Len(treeTasks[m]) /\ ~treeTasks[m][i].landed
    BY <1>0 DEF QueuesOK
  <1>2. /\ t \in Seq(HandlerRecord) /\ t # << >>
        /\ Pending(t) \subseteq Pending(treeTasks[m]) /\ Pending(treeTasks[m]) \subseteq Pending(t) \cup {f}
        /\ f \in Pending(treeTasks[m]) /\ f \in HandlerFrame
    BY <1>1, PendingLands
  <1>3. treeTasks[m] # << >>
    BY <1>1
  <1>4. /\ treeTasks' = [treeTasks EXCEPT ![m] = t]
        /\ treeReads' = treeReads /\ treeApplying' = treeApplying /\ treeInbox' = treeInbox
        /\ treeManifests' = treeManifests /\ treePulls' = treePulls /\ treeAsked' = treeAsked
        /\ treeMeant' = treeMeant
    BY DEF TaskLands, treeSync, treeUsers, QueuesOK
  <1>5. /\ treeFiles' = CASE writes -> [treeFiles EXCEPT ![m][f.path] = f.content]
                          [] renames -> [treeFiles EXCEPT ![m][f.path] = "none", ![m][f.to] = treeFiles[m][f.path]]
                          [] deletes -> [treeFiles EXCEPT ![m][f.path] = "none"]
                          [] OTHER -> treeFiles
        /\ WatcherTold(m, CASE renames -> {f.to}
                            [] writes /\ Appears(m, f.path) -> {f.path}
                            [] OTHER -> {},
                          IF renames \/ deletes THEN {f.path} ELSE {})
    BY DEF TaskLands
  <1> HIDE DEF f, t
  <1>6. /\ treeTasks' \in [Member -> Seq(HandlerRecord)] /\ treeTasks'[m] = t
        /\ \A n \in Member \ {m} : treeTasks'[n] = treeTasks[n]
    BY <1>2, <1>4 DEF QueuesOK
  <1>7. /\ \A n \in Member : Reading(n)' = Reading(n)
        /\ \A n \in Member \ {m} : Arriving(n)' = Arriving(n)
        /\ Arriving(m)' \subseteq Arriving(m) /\ Arriving(m) \subseteq Arriving(m)' \cup {f}
        /\ f \in Arriving(m)
    BY <1>2, <1>4, <1>6 DEF Reading, Arriving
  <1>8. f.path \in Path /\ (f \in MoveFrame => f.to \in Path)
    BY <1>2 DEF HandlerFrame, WriteFrame, MoveFrame, Shared
  <1>9. /\ f \in WriteFrame <=> writes
        /\ f \in MoveFrame <=> f.type \in {"FILE_RENAME", "FILE_DELETE"}
        /\ f \in WriteFrame => f.content \in FileContent
    BY <1>2 DEF HandlerFrame, WriteFrame, MoveFrame
  <1>10. /\ LandsAs(m, f) /\ \A n \in Member \ {m} : Seen(n)' = Seen(n)
         /\ treeEvents' \in [Member -> Seq(EventRecord)]
         /\ treeFiles' \in [Member -> [Path -> FileContent \cup {"none"}]]
    <2>1. CASE writes /\ Has(m, f.path)
      <3>1. WatcherTold(m, {}, {}) /\ treeFiles' = [treeFiles EXCEPT ![m][f.path] = f.content]
        BY <1>5, <2>1 DEF Appears
      <3>2. Tells(m, {})
        BY <3>1, ToldNothing
      <3> QED BY <1>8, <1>9, <2>1, <3>1, <3>2 DEF LandsAs, FilesOK, Tells
    <2>2. CASE writes /\ ~Has(m, f.path)
      <3>1. WatcherTold(m, {f.path}, {}) /\ treeFiles' = [treeFiles EXCEPT ![m][f.path] = f.content]
        BY <1>5, <2>2 DEF Appears
      <3>2. Tells(m, {[created |-> {f.path}, deleted |-> {}]})
        BY <1>8, <3>1, ToldAre
      <3> QED BY <1>8, <1>9, <2>2, <3>1, <3>2 DEF LandsAs, FilesOK, Tells
    <2>3. CASE renames
      <3>1. /\ WatcherTold(m, {f.to}, {f.path})
            /\ treeFiles' = [treeFiles EXCEPT ![m][f.path] = "none", ![m][f.to] = treeFiles[m][f.path]]
        BY <1>5, <2>3
      <3>2. Has(m, f.path) /\ ~Has(m, f.to) /\ f \in MoveFrame /\ f.type = "FILE_RENAME"
        BY <1>9, <2>3 DEF Rename
      <3>3. Tells(m, {[created |-> {f.to}, deleted |-> {f.path}]})
        BY <1>8, <3>1, <3>2, ToldAre
      <3> QED BY <1>8, <3>1, <3>2, <3>3 DEF LandsAs, FilesOK, Tells
    <2>4. CASE deletes
      <3>1. WatcherTold(m, {}, {f.path}) /\ treeFiles' = [treeFiles EXCEPT ![m][f.path] = "none"]
        BY <1>5, <2>4
      <3>2. Tells(m, {[created |-> {}, deleted |-> {f.path}]})
        BY <1>8, <3>1, ToldAre
      <3> QED BY <1>8, <1>9, <2>4, <3>1, <3>2 DEF LandsAs, FilesOK, Tells
    <2>5. CASE ~writes /\ ~renames /\ ~deletes
      <3>1. WatcherTold(m, {}, {}) /\ treeFiles' = treeFiles
        BY <1>5, <2>5
      <3>2. f \in MoveFrame /\ (f.type = "FILE_DELETE" => ~Has(m, f.path))
        BY <1>2, <1>9, <2>5 DEF HandlerFrame
      <3>3. Tells(m, {})
        BY <3>1, ToldNothing
      <3> QED BY <3>1, <3>2, <3>3 DEF LandsAs, FilesOK, Tells
    <2> QED BY <2>1, <2>2, <2>3, <2>4, <2>5
  <1>11. TreeVarsOK'
    BY <1>4, <1>6, <1>10 DEF QueuesOK, FilesOK, SyncOK
  <1> QED BY <1>2, <1>3, <1>4, <1>6, <1>7, <1>10, <1>11

LEMMA EndsGives ==
    ASSUME TreeVarsOK, NEW m \in Member, NEW i \in DOMAIN treeTasks[m], TaskEnds(m, i)
    PROVE  /\ TreeVarsOK'
           /\ \A n \in Member : Seen(n)' = Seen(n) /\ Reading(n)' = Reading(n) /\ Arriving(n)' = Arriving(n)
           /\ \A n \in Member \ {m} : treeTasks'[n] = treeTasks[n] /\ treeApplying'[n] = treeApplying[n]
           /\ treeTasks[m] # << >> /\ ~treeApplying'[m]
  <1> USE DEF TreeVarsOK
  <1>1. treeTasks[m] \in Seq(HandlerRecord) /\ i \in 1 .. Len(treeTasks[m]) /\ treeTasks[m][i].landed
    BY DEF QueuesOK, TaskEnds
  <1>2. /\ RemoveAt(treeTasks[m], i) \in Seq(HandlerRecord)
        /\ Pending(RemoveAt(treeTasks[m], i)) = Pending(treeTasks[m])
    BY <1>1, PendingEnds
  <1>3. treeTasks[m] # << >>
    BY <1>1
  <1>4. /\ treeTasks' = [treeTasks EXCEPT ![m] = RemoveAt(treeTasks[m], i)]
        /\ treeApplying' = [treeApplying EXCEPT ![m] = FALSE]
        /\ treeFiles' = treeFiles /\ treeEvents' = treeEvents /\ treeReads' = treeReads /\ treeInbox' = treeInbox
        /\ treeManifests' = treeManifests /\ treePulls' = treePulls /\ treeAsked' = treeAsked
        /\ treeMeant' = treeMeant
    BY DEF TaskEnds, treeSync, treeUsers
  <1>5. /\ treeTasks' \in [Member -> Seq(HandlerRecord)] /\ treeTasks'[m] = RemoveAt(treeTasks[m], i)
        /\ \A n \in Member \ {m} : treeTasks'[n] = treeTasks[n] /\ treeApplying'[n] = treeApplying[n]
        /\ ~treeApplying'[m] /\ treeApplying' \in [Member -> BOOLEAN]
    BY <1>2, <1>4 DEF QueuesOK, FilesOK
  <1>6. \A n \in Member : Seen(n)' = Seen(n) /\ Reading(n)' = Reading(n)
    BY <1>4 DEF Seen, Reading
  <1>7. \A n \in Member : Arriving(n)' = Arriving(n)
    BY <1>2, <1>4, <1>5 DEF Arriving
  <1>8. TreeVarsOK'
    BY <1>4, <1>5 DEF QueuesOK, FilesOK, SyncOK
  <1> QED BY <1>3, <1>5, <1>6, <1>7, <1>8

\* What a user's operation does: event e, and a frame of a rename.
LEMMA CreateGives ==
    ASSUME TreeVarsOK, NEW m \in Member, NEW p \in Path, NEW c \in FileContent, UserCreates(m, p, c)
    PROVE  /\ TreeVarsOK'
           /\ \A n \in Member : Reading(n)' = Reading(n) /\ Arriving(n)' = Arriving(n)
           /\ \A n \in Member \ {m} : Seen(n)' = Seen(n)
           /\ Seen(m)' = Seen(m) \cup {[created |-> {p}, deleted |-> {}]}
  <1> USE DEF TreeVarsOK
  <1>1. /\ treeFiles' = [treeFiles EXCEPT ![m][p] = c] /\ treeMeant' = [treeMeant EXCEPT ![p] = c]
        /\ treeReads' = treeReads /\ treeTasks' = treeTasks /\ treeApplying' = treeApplying
        /\ treeInbox' = treeInbox /\ WatcherTold(m, {p}, {})
        /\ treeManifests' = treeManifests /\ treePulls' = treePulls /\ treeAsked' = treeAsked
    BY DEF UserCreates, Touch, treeSync
  <1>2. Tells(m, {[created |-> {p}, deleted |-> {}]})
    BY <1>1, ToldAre
  <1>3. QueuesOK' /\ FilesOK' /\ SyncOK'
    BY <1>1, <1>2 DEF QueuesOK, FilesOK, SyncOK, Tells
  <1>4. \A n \in Member : Reading(n)' = Reading(n) /\ Arriving(n)' = Arriving(n)
    BY <1>1 DEF Reading, Arriving
  <1> QED BY <1>2, <1>3, <1>4 DEF Tells

LEMMA DeleteGives ==
    ASSUME TreeVarsOK, NEW m \in Member, NEW p \in Path, UserDeletes(m, p)
    PROVE  /\ TreeVarsOK'
           /\ \A n \in Member : Reading(n)' = Reading(n) /\ Arriving(n)' = Arriving(n)
           /\ \A n \in Member \ {m} : Seen(n)' = Seen(n)
           /\ Seen(m)' = Seen(m) \cup {[created |-> {}, deleted |-> {p}]}
  <1> USE DEF TreeVarsOK
  <1>1. /\ treeFiles' = [treeFiles EXCEPT ![m][p] = "none"] /\ treeMeant' = [treeMeant EXCEPT ![p] = "none"]
        /\ treeReads' = treeReads /\ treeTasks' = treeTasks /\ treeApplying' = treeApplying
        /\ treeInbox' = treeInbox /\ WatcherTold(m, {}, {p})
        /\ treeManifests' = treeManifests /\ treePulls' = treePulls /\ treeAsked' = treeAsked
    BY DEF UserDeletes, Touch, treeSync
  <1>2. Tells(m, {[created |-> {}, deleted |-> {p}]})
    BY <1>1, ToldAre
  <1>3. QueuesOK' /\ FilesOK' /\ SyncOK'
    BY <1>1, <1>2 DEF QueuesOK, FilesOK, SyncOK, Tells
  <1>4. \A n \in Member : Reading(n)' = Reading(n) /\ Arriving(n)' = Arriving(n)
    BY <1>1 DEF Reading, Arriving
  <1> QED BY <1>2, <1>3, <1>4 DEF Tells

\* What goes out as soon as a file is renamed.
RenameSent(old, new) == FileFrame("FILE_RENAME", old, new, "")

LEMMA RenameGives ==
    ASSUME TreeVarsOK, NEW m \in Member, NEW old \in Path, NEW new \in Path, UserRenames(m, old, new)
    PROVE  /\ TreeVarsOK'
           /\ \A n \in Member : Reading(n)' = Reading(n)
           /\ Arriving(m)' = Arriving(m)
           /\ \A n \in Member \ {m} : /\ Seen(n)' = Seen(n)
                                      /\ Arriving(n)' = Arriving(n) \cup {RenameSent(old, new)}
           /\ Seen(m)' = Seen(m) \cup {[created |-> {new}, deleted |-> {old}]}
  <1> DEFINE f == RenameSent(old, new)
  <1> USE DEF TreeVarsOK
  <1>1. /\ treeFiles' = [treeFiles EXCEPT ![m][old] = "none", ![m][new] = treeFiles[m][old]]
        /\ treeMeant' = [treeMeant EXCEPT ![old] = "none",
                            ![new] = IF Alike(m, old) THEN treeFiles[m][old] ELSE "unclear"]
        /\ treeReads' = treeReads /\ treeTasks' = treeTasks /\ treeApplying' = treeApplying
        /\ treeInbox' = Relayed(treeInbox, m, << f >>) /\ WatcherTold(m, {new}, {old})
        /\ treeManifests' = treeManifests /\ treePulls' = treePulls /\ treeAsked' = treeAsked
    BY DEF UserRenames, Touch, treeSync, RenameSent
  <1>2. f \in TreeFrame
    BY FramesAre DEF TreeFrame, HandlerFrame, RenameSent
  <1> HIDE DEF f
  <1>3. Reaches(m, {f})
    <2>1. << f >> \in Seq(TreeFrame) /\ Holding(<< f >>) = {f}
      BY <1>2, OneHeld
    <2>2. Reaches(m, Holding(<< f >>))
      BY <1>1, <2>1, RelayedAre
    <2> QED BY <2>1, <2>2
  <1>4. Tells(m, {[created |-> {new}, deleted |-> {old}]})
    BY <1>1, ToldAre
  <1>5. treeFiles[m][old] \in FileContent
    BY DEF UserRenames, Has, FilesOK
  <1>6. QueuesOK' /\ SyncOK'
    BY <1>1, <1>3, <1>4 DEF QueuesOK, SyncOK, Reaches, Tells
  <1>7. FilesOK'
    BY <1>1, <1>5 DEF FilesOK
  <1>8. /\ \A n \in Member : Reading(n)' = Reading(n)
        /\ Arriving(m)' = Arriving(m)
        /\ \A n \in Member \ {m} : Arriving(n)' = Arriving(n) \cup {f}
    BY <1>1, <1>3 DEF Reading, Arriving, Reaches
  <1> QED BY <1>4, <1>6, <1>7, <1>8 DEF f, Tells

LEMMA StartPullGives ==
    ASSUME TreeVarsOK, NEW m \in Member, StartPull(m)
    PROVE  /\ TreeVarsOK'
           /\ \A n \in Member : Reading(n)' = Reading(n) /\ Seen(n)' = Seen(n)
           /\ Arriving(m)' = Arriving(m)
           /\ \E f \in ShareFrame : \A n \in Member \ {m} : Arriving(n)' = Arriving(n) \cup {f}
  <1> DEFINE f == FileFrame("ARCH_SHARE", "", m, Manifest(m))
  <1> USE DEF TreeVarsOK
  <1>1. /\ treePulls' = << [by |-> m, had |-> Manifest(m)] >>
        /\ treeInbox' = Relayed(treeInbox, m, << f >>)
        /\ treeFiles' = treeFiles /\ treeEvents' = treeEvents /\ treeReads' = treeReads
        /\ treeTasks' = treeTasks /\ treeApplying' = treeApplying /\ treeManifests' = treeManifests
        /\ treeAsked' = treeAsked /\ treeMeant' = treeMeant
    BY DEF StartPull
  <1>2. Manifest(m) \in SUBSET Shared
    BY DEF Manifest, Shared, Synced
  <1>3. f \in ShareFrame /\ f \in TreeFrame
    BY <1>2 DEF ShareFrame, FileFrame, TreeFrame
  <1> HIDE DEF f
  <1>4. Reaches(m, {f})
    <2>1. << f >> \in Seq(TreeFrame) /\ Holding(<< f >>) = {f}
      BY <1>3, OneHeld
    <2>2. Reaches(m, Holding(<< f >>))
      BY <1>1, <2>1, RelayedAre
    <2> QED BY <2>1, <2>2
  <1>5. treePulls' \in Seq([by : Member, had : SUBSET Shared])
    <2> DEFINE x == [by |-> m, had |-> Manifest(m)]
    <2>1. x \in [by : Member, had : SUBSET Shared]
      BY <1>2
    <2> HIDE DEF x
    <2>2. treePulls' = << x >>
      BY <1>1 DEF x
    <2> QED BY <2>1, <2>2
  <1>6. QueuesOK' /\ FilesOK' /\ SyncOK'
    BY <1>1, <1>4, <1>5 DEF QueuesOK, FilesOK, SyncOK, Reaches
  <1>7. /\ \A n \in Member : Reading(n)' = Reading(n) /\ Seen(n)' = Seen(n)
        /\ Arriving(m)' = Arriving(m)
        /\ \A n \in Member \ {m} : Arriving(n)' = Arriving(n) \cup {f}
    BY <1>1, <1>4 DEF Reading, Seen, Arriving, Reaches
  <1> QED BY <1>3, <1>6, <1>7

Requested(m, missing) == {FileFrame("FILE_REQUEST", p, m, "") : p \in missing}

LEMMA EndPullGives ==
    ASSUME TreeVarsOK, EndPull
    PROVE  /\ TreeVarsOK'
           /\ \A n \in Member : Reading(n)' = Reading(n) /\ Seen(n)' = Seen(n)
           /\ \E m \in Member : \E missing \in SUBSET Shared :
                 /\ Arriving(m)' = Arriving(m)
                 /\ \A n \in Member \ {m} : Arriving(n)' = Arriving(n) \cup Requested(m, missing)
                 /\ treeAsked' = [treeAsked EXCEPT ![m] = @ \cup missing]
  <1> DEFINE m == treePulls[1].by
             missing == UNION {treeManifests[m][n] : n \in Member} \ treePulls[1].had
             fs == Requests(m, missing)
  <1> USE DEF TreeVarsOK
  <1>1. treePulls[1] \in [by : Member, had : SUBSET Shared]
    <2>1. treePulls # << >> /\ treePulls \in Seq([by : Member, had : SUBSET Shared])
      BY DEF EndPull, SyncOK
    <2> DEFINE R == [by : Member, had : SUBSET Shared]
    <2> HIDE DEF R
    <2>2. treePulls # << >> /\ treePulls \in Seq(R)
      BY <2>1 DEF R
    <2>3. treePulls[1] \in R
      BY <2>2
    <2> QED BY <2>3 DEF R
  <1>2. m \in Member /\ missing \in SUBSET Shared /\ missing \in SUBSET Path
    BY <1>1 DEF SyncOK, Shared
  <1>3. /\ treeInbox' = Relayed(treeInbox, m, fs)
        /\ treeAsked' = [treeAsked EXCEPT ![m] = @ \cup missing]
        /\ treePulls' = << >>
        /\ treeFiles' = treeFiles /\ treeEvents' = treeEvents /\ treeReads' = treeReads
        /\ treeTasks' = treeTasks /\ treeApplying' = treeApplying /\ treeManifests' = treeManifests
        /\ treeMeant' = treeMeant
    BY DEF EndPull, treeUsers
  <1> HIDE DEF m, missing
  <1>4. fs \in Seq(TreeFrame) /\ Holding(fs) = Requested(m, missing)
    <2> DEFINE s == SetToSeq(missing)
    <2>1. s \in Seq(missing) /\ Holding(s) = missing /\ Len(s) = Cardinality(missing) /\ Cardinality(missing) \in Nat
      BY <1>2, FewPaths, SetInSequence
    <2>2. \A k \in 1 .. Len(s) : s[k] \in missing
      BY <2>1
    <2>3. fs = [k \in 1 .. Len(s) |-> FileFrame("FILE_REQUEST", s[k], m, "")]
      BY <2>1 DEF Requests
    <2> HIDE DEF s, fs
    <2>4. \A k \in 1 .. Len(s) : FileFrame("FILE_REQUEST", s[k], m, "") \in TreeFrame
      BY <1>2, <2>2, FramesAre DEF TreeFrame
    <2> DEFINE F(p) == FileFrame("FILE_REQUEST", p, m, "")
    <2> HIDE DEF F
    <2>9. /\ fs = [k \in 1 .. Len(s) |-> F(s[k])]
          /\ \A k \in 1 .. Len(s) : F(s[k]) \in TreeFrame
          /\ Requested(m, missing) = {F(p) : p \in missing}
      BY <2>3, <2>4, Zenon DEF F, Requested
    <2>5. fs \in Seq(TreeFrame) /\ Len(fs) = Len(s)
      BY <2>1, <2>9
    <2>6. \A k \in 1 .. Len(s) : fs[k] = F(s[k])
      BY <2>9
    <2>7. Holding(fs) \subseteq Requested(m, missing)
      BY <2>2, <2>5, <2>6, <2>9 DEF Holding
    <2>8. ASSUME NEW x \in Requested(m, missing) PROVE x \in Holding(fs)
      <3>1. PICK p \in missing : x = F(p)
        BY <2>9
      <3>2. PICK k \in 1 .. Len(s) : p = s[k]
        BY <2>1, <3>1 DEF Holding
      <3> QED BY <2>5, <2>6, <3>1, <3>2 DEF Holding
    <2> QED BY <2>5, <2>7, <2>8
  <1> HIDE DEF fs
  <1>5. Reaches(m, Requested(m, missing))
    <2>1. Reaches(m, Holding(fs))
      BY <1>2, <1>3, <1>4, RelayedAre
    <2> QED BY <1>4, <2>1
  <1>6. QueuesOK' /\ FilesOK'
    BY <1>3, <1>5 DEF QueuesOK, FilesOK, Reaches
  <1>7. SyncOK'
    BY <1>2, <1>3 DEF SyncOK
  <1>8. /\ \A n \in Member : Reading(n)' = Reading(n) /\ Seen(n)' = Seen(n)
        /\ \A n \in Member : n = m => Arriving(n)' = Arriving(n)
        /\ \A n \in Member : n # m => Arriving(n)' = Arriving(n) \cup Requested(m, missing)
    BY <1>3, <1>5 DEF Reading, Seen, Arriving, Reaches
  <1>9. PICK k \in Member : k = m
    BY <1>2
  <1>10. /\ Arriving(k)' = Arriving(k)
         /\ \A n \in Member \ {k} : Arriving(n)' = Arriving(n) \cup Requested(k, missing)
         /\ treeAsked' = [treeAsked EXCEPT ![k] = @ \cup missing]
    BY <1>3, <1>8, <1>9
  <1> QED BY <1>2, <1>6, <1>7, <1>8, <1>10

LEMMA NoneIsNoContent ==
    /\ "none" \notin FileContent /\ "unclear" \notin FileContent /\ "untouched" \notin FileContent
    /\ "text" \in FileContent
  <1>1. "none" # "" /\ "unclear" # "" /\ "untouched" # ""
    BY Zenon
  <1>2. "none" # "text" /\ "unclear" # "text" /\ "untouched" # "text"
    OBVIOUS
  <1> QED BY <1>1, <1>2, Zenon DEF FileContent

LEMMA TreeVarsInit == TreeInit => TreeVarsOK
  <1> SUFFICES ASSUME TreeInit PROVE TreeVarsOK
    OBVIOUS
  <1>1. QueuesOK
    BY DEF TreeInit, QueuesOK
  <1>2. FilesOK
    BY NoneIsNoContent DEF TreeInit, FilesOK
  <1>3. \A n \in Member : AtFirst[n] \ Ignored \in SUBSET Shared
    BY MemberAssumption DEF Shared
  <1>4. SyncOK
    BY <1>3 DEF TreeInit, SyncOK
  <1> QED BY <1>1, <1>2, <1>4 DEF TreeVarsOK

LEMMA TreeVarsNext == TreeVarsOK /\ [TreeNext]_treeVars => TreeVarsOK'
  <1> SUFFICES ASSUME TreeVarsOK, [TreeNext]_treeVars PROVE TreeVarsOK'
    OBVIOUS
  <1> USE DEF TreeVarsOK
  <1>1. ASSUME NEW m \in Member, TreeTask(m) PROVE TreeVarsOK'
    <2>1. CASE DeliverEvent(m)
      <3>1. QueuesOK'
        BY <2>1, DeliverGives
      <3>2. FilesOK' /\ SyncOK'
        BY <2>1 DEF DeliverEvent, FilesOK, SyncOK, treeSync, treeUsers
      <3> QED BY <3>1, <3>2
    <2>2. ASSUME NEW i \in DOMAIN treeReads[m], FileRead(m, i) PROVE TreeVarsOK'
      <3>1. QueuesOK'
        BY <2>2, ReadGives
      <3>2. FilesOK' /\ SyncOK'
        BY <2>2 DEF FileRead, FilesOK, SyncOK, treeSync, treeUsers
      <3> QED BY <3>1, <3>2
    <2>3. CASE ReceiveFrame(m)
      BY <2>3, ReceiveGives
    <2>4. ASSUME NEW i \in DOMAIN treeTasks[m], TaskLands(m, i) PROVE TreeVarsOK'
      BY <2>4, LandsGives
    <2>5. ASSUME NEW i \in DOMAIN treeTasks[m], TaskEnds(m, i) PROVE TreeVarsOK'
      BY <2>5, EndsGives
    <2> QED BY <1>1, <2>1, <2>2, <2>3, <2>4, <2>5 DEF TreeTask
  <1>2. ASSUME NEW m \in Member, NEW p \in Path, NEW c \in FileContent, UserCreates(m, p, c) PROVE TreeVarsOK'
    BY <1>2, CreateGives
  <1>3. ASSUME NEW m \in Member, NEW p \in Path, UserDeletes(m, p) PROVE TreeVarsOK'
    BY <1>3, DeleteGives
  <1>4. ASSUME NEW m \in Member, NEW p \in Path, NEW q \in Path, UserRenames(m, p, q) PROVE TreeVarsOK'
    BY <1>4, RenameGives
  <1>5. ASSUME NEW m \in Member, StartPull(m) PROVE TreeVarsOK'
    BY <1>5, StartPullGives
  <1>6. CASE EndPull
    BY <1>6, EndPullGives
  <1>7. CASE UNCHANGED treeVars
    BY <1>7 DEF treeVars, treeQueues, treeSync, treeUsers, QueuesOK, FilesOK, SyncOK
  <1> QED BY <1>1, <1>2, <1>3, <1>4, <1>5, <1>6, <1>7 DEF TreeNext

LEMMA TreeTypes == TreeVarsOK => TreeTypeOK
  <1> SUFFICES ASSUME TreeVarsOK PROVE TreeTypeOK
    OBVIOUS
  <1> USE DEF TreeVarsOK
  <1>1. ASSUME NEW m \in Member, NEW i \in DOMAIN treeEvents[m]
        PROVE  treeEvents[m][i].created \cup treeEvents[m][i].deleted \subseteq Path
    <2>1. treeEvents[m] \in Seq(EventRecord)
      BY DEF QueuesOK
    <2>2. treeEvents[m][i] \in EventRecord
      BY <2>1
    <2> QED BY <2>2 DEF EventRecord
  <1>2. ASSUME NEW m \in Member, NEW i \in DOMAIN treeReads[m] PROVE treeReads[m][i] \in Path \ Ignored
    BY DEF QueuesOK, Shared
  <1>3. ASSUME NEW m \in Member, NEW i \in DOMAIN treeTasks[m]
        PROVE  treeTasks[m][i].frame.content \in FileContent
    <2>0. treeTasks[m] \in Seq(HandlerRecord)
      BY DEF QueuesOK
    <2>3. treeTasks[m][i] \in HandlerRecord
      BY <2>0
    <2>1. treeTasks[m][i].frame \in HandlerFrame
      BY <2>3 DEF HandlerRecord
    <2>2. \A f \in HandlerFrame : f.content \in FileContent
      BY DEF HandlerFrame, WriteFrame, MoveFrame, FileContent
    <2> QED BY <2>1, <2>2
  <1> QED BY <1>1, <1>2, <1>3 DEF FilesOK, SyncOK, TreeTypeOK, Shared

\* Every file has a content, every event, read and handler a path, whatever the
\* users and the watchers do (fileWatcher.ts, fileSyncService.ts).
THEOREM TreeTypeCorrect == TreeSpec => []TreeTypeOK
  <1>1. TreeSpec => []TreeVarsOK
    BY TreeVarsInit, TreeVarsNext, PTL DEF TreeSpec
  <1> QED BY <1>1, TreeTypes, PTL

-----------------------------------------------------------------------------
(* What a turn leaves behind.                                              *)

\* v may be what the users want p to be; what is unclear or untouched may have
\* any content.
Right(p, v) == v \in FileContent /\ treeMeant[p] \in {v, "unclear", "untouched"}
Writes(f) == f.type \in {"FILE_CREATE", "FILE_CONTENT"}
TreeWritten(p, k) == \E f \in Arriving(k) : Writes(f) /\ f.path = p
Deleted(p, k) == \E f \in Arriving(k) : f.type = "FILE_DELETE" /\ f.path = p

\* A lowered flag is nobody's: where it is up, a handler is under way.
FlagIsOurs == \A m \in Member : treeApplying[m] => treeTasks[m] # << >>

\* A frame under way to m brings what the users want.
GoodFrame(m, f) ==
    /\ Writes(f) => f.path \in Shared /\ Right(f.path, f.content)
    /\ f.type = "FILE_DELETE" => treeMeant[f.path] = "none"
    /\ f.type = "FILE_RENAME" =>
          /\ treeMeant[f.path] = "none" /\ treeMeant[f.to] \notin {"none", "untouched"}
          /\ Has(m, f.path) /\ f.to \in Shared => Right(f.to, treeFiles[m][f.path])
    /\ f.type = "FILE_REQUEST" /\ Has(m, f.path) => Right(f.path, treeFiles[m][f.path])
GoodEvent(m, e) ==
    /\ \A p \in e.deleted : treeMeant[p] = "none"
    /\ \A p \in e.created : /\ treeMeant[p] # "none"
                            /\ p \in Shared => Right(p, treeFiles[m][p])
GoodRead(m, p) == p \in Shared /\ Right(p, treeFiles[m][p])
Consistent ==
    \A m \in Member : /\ \A f \in Arriving(m) : GoodFrame(m, f)
                      /\ \A e \in Seen(m) : GoodEvent(m, e)
                      /\ \A p \in Reading(m) : GoodRead(m, p)

\* Event e of the user's operation is still to be reported, and nothing but a
\* rename has gone out: whoever reports e first lets all know.
Begun(m, e) ==
    /\ Seen(m) = {e} /\ treeTasks[m] = << >> /\ Arriving(m) = {}
    /\ \A k \in Member :
          /\ Reading(k) = {}
          /\ Seen(k) \subseteq {e}
          /\ Seen(k) # {} => \A p \in e.deleted : ~Has(k, p)
          /\ \A f \in Arriving(k) : /\ f.type = "FILE_RENAME"
                                    /\ e = [created |-> {f.to}, deleted |-> {f.path}]
Begins(p) == \E m \in Member : \E e \in Seen(m) : Begun(m, e) /\ p \in e.created \cup e.deleted

\* Who has not yet what the users want is going to get it.
Gone(p, k) == ~Has(k, p) \/ Deleted(p, k) \/ Begins(p)
Come(p, k) == \/ Right(p, treeFiles[k][p]) \/ TreeWritten(p, k)
              \/ \E n \in Member : p \in Reading(n)
              \/ Begins(p)
Complete ==
    \A p \in Shared, k \in Member :
        /\ treeMeant[p] = "none" => Gone(p, k)
        /\ treeMeant[p] \notin {"none", "untouched"} => Come(p, k)

\* A path that was requested is there, comes, or is asked of all who have it.
Calm(p) == \A n \in Member : /\ ~TreeWritten(p, n) /\ p \notin Reading(n)
                             /\ \A e \in Seen(n) : p \notin e.created
AskedOf(p, m, n) == \E f \in Arriving(n) : f.type = "FILE_REQUEST" /\ f.path = p /\ f.to = m
TreeAnswered(p, m) ==
    \/ Has(m, p) \/ TreeWritten(p, m)
    \/ Calm(p) /\ \A n \in Member : Has(n, p) => AskedOf(p, m, n)
TreeAsked == \A m \in Member : \A p \in treeAsked[m] : treeMeant[p] = "untouched" => TreeAnswered(p, m)
SameAsker ==
    \A m, n \in Member : \A f \in Arriving(m), g \in Arriving(n) :
        f.type = "FILE_REQUEST" /\ g.type = "FILE_REQUEST" => f.to = g.to

\* While the Sync button waits nothing else goes on.
PullAlone ==
    treePulls # << >> => \A m \in Member :
        /\ Seen(m) = {} /\ Reading(m) = {} /\ treeTasks[m] = << >>
        /\ \A f \in Arriving(m) : f.type = "ARCH_SHARE"

OneTurn == Consistent /\ Complete /\ TreeAsked /\ SameAsker /\ PullAlone
TreeInv == TreeVarsOK /\ FlagIsOurs /\ (TakeTurns => OneTurn)

LEMMA QueueTypes ==
    ASSUME TreeVarsOK, NEW m \in Member
    PROVE  Arriving(m) \subseteq TreeFrame /\ Reading(m) \subseteq Shared /\ Seen(m) \subseteq EventRecord
  <1>1. /\ treeInbox[m] \in Seq(TreeFrame) /\ treeReads[m] \in Seq(Shared)
        /\ treeEvents[m] \in Seq(EventRecord) /\ treeTasks[m] \in Seq(HandlerRecord)
    BY DEF TreeVarsOK, QueuesOK
  <1>2. ASSUME NEW S, NEW s \in Seq(S) PROVE Holding(s) \subseteq S
    BY DEF Holding
  <1>3. Pending(treeTasks[m]) \subseteq TreeFrame
    <2>1. \A i \in 1 .. Len(treeTasks[m]) : treeTasks[m][i] \in HandlerRecord
      BY <1>1
    <2>2. \A i \in 1 .. Len(treeTasks[m]) : treeTasks[m][i].frame \in HandlerFrame
      BY <2>1 DEF HandlerRecord
    <2> QED BY <2>2 DEF Pending, TreeFrame
  <1>4. /\ Holding(treeInbox[m]) \subseteq TreeFrame /\ Holding(treeReads[m]) \subseteq Shared
        /\ Holding(treeEvents[m]) \subseteq EventRecord
    BY <1>1, <1>2
  <1> QED BY <1>3, <1>4 DEF Arriving, Reading, Seen

LEMMA FramePaths ==
    ASSUME NEW f \in TreeFrame
    PROVE  /\ f \in WriteFrame => f.path \in Shared /\ f.path \in Path /\ f.content \in FileContent
                                  /\ f.type \in {"FILE_CREATE", "FILE_CONTENT"}
           /\ f \in MoveFrame => f.path \in Path /\ f.to \in Path /\ f.type \in {"FILE_DELETE", "FILE_RENAME"}
           /\ f \in RequestFrame => f.path \in Shared /\ f.path \in Path /\ f.to \in Member
                                    /\ f.type = "FILE_REQUEST"
           /\ f \in ShareFrame => f.type = "ARCH_SHARE"
           /\ f \in WriteFrame \/ f \in MoveFrame \/ f \in RequestFrame \/ f \in ShareFrame
  <1>1. f \in WriteFrame => f.path \in Shared /\ f.path \in Path /\ f.content \in FileContent
                                  /\ f.type \in {"FILE_CREATE", "FILE_CONTENT"}
    BY DEF WriteFrame, Shared
  <1>2. f \in MoveFrame => f.path \in Path /\ f.to \in Path /\ f.type \in {"FILE_DELETE", "FILE_RENAME"}
    BY DEF MoveFrame
  <1>3. f \in RequestFrame => f.path \in Shared /\ f.path \in Path /\ f.to \in Member /\ f.type = "FILE_REQUEST"
    BY DEF RequestFrame, Shared
  <1>4. f \in ShareFrame => f.type = "ARCH_SHARE"
    BY DEF ShareFrame
  <1>5. f \in WriteFrame \/ f \in MoveFrame \/ f \in RequestFrame \/ f \in ShareFrame
    BY DEF TreeFrame, HandlerFrame
  <1> QED BY <1>1, <1>2, <1>3, <1>4, <1>5

\* Files become what the users want, or stay, or go if the users want that.
FilesGoRight ==
    \A k \in Member : \A p \in Path :
        /\ p \in Shared /\ Right(p, treeFiles[k][p]) => Right(p, treeFiles'[k][p])
        /\ p \in Shared /\ ~Has(k, p) /\ treeFiles'[k][p] # "none" => Right(p, treeFiles'[k][p])
        /\ treeMeant[p] = "none" => treeFiles'[k][p] \in {treeFiles[k][p], "none"}

LEMMA SameFilesAreRight == ASSUME treeFiles' = treeFiles PROVE FilesGoRight
  BY DEF FilesGoRight, Has

LEMMA LandsRight ==
    ASSUME TreeVarsOK, NEW m \in Member, NEW f \in Arriving(m), GoodFrame(m, f), LandsAs(m, f)
    PROVE  FilesGoRight
  <1> USE NoneIsNoContent
  <1>1. f \in TreeFrame
    BY QueueTypes
  <1>2. treeFiles \in [Member -> [Path -> FileContent \cup {"none"}]]
    BY DEF TreeVarsOK, FilesOK
  <1>3. CASE f \in WriteFrame /\ treeFiles' = [treeFiles EXCEPT ![m][f.path] = f.content]
    <2>1. Right(f.path, f.content) /\ f.path \in Path
      BY <1>1, <1>3, FramePaths DEF GoodFrame, Writes
    <2>2. treeMeant[f.path] # "none"
      BY <2>1 DEF Right
    <2> QED BY <1>2, <1>3, <2>1, <2>2 DEF FilesGoRight, Has
  <1>4. CASE /\ f \in MoveFrame /\ f.type = "FILE_RENAME" /\ Has(m, f.path) /\ ~Has(m, f.to)
             /\ treeFiles' = [treeFiles EXCEPT ![m][f.path] = "none", ![m][f.to] = treeFiles[m][f.path]]
    <2>1. /\ treeMeant[f.path] = "none" /\ treeMeant[f.to] # "none"
          /\ f.to \in Shared => Right(f.to, treeFiles[m][f.path])
          /\ f.path \in Path /\ f.to \in Path /\ f.path # f.to
      BY <1>1, <1>4, FramePaths DEF GoodFrame
    <2>2. /\ treeFiles'[m][f.path] = "none" /\ treeFiles'[m][f.to] = treeFiles[m][f.path]
          /\ \A k \in Member, p \in Path :
                (k = m => p # f.path /\ p # f.to) => treeFiles'[k][p] = treeFiles[k][p]
      BY <1>2, <1>4, <2>1
    <2>3. \A v : ~Right(f.path, v)
      BY <2>1 DEF Right
    <2> QED BY <2>1, <2>2, <2>3 DEF FilesGoRight, Has
  <1>5. CASE /\ f \in MoveFrame /\ f.type = "FILE_DELETE"
             /\ treeFiles' = [treeFiles EXCEPT ![m][f.path] = "none"]
    <2>1. treeMeant[f.path] = "none" /\ f.path \in Path
      BY <1>1, <1>5, FramePaths DEF GoodFrame
    <2>2. \A v : ~Right(f.path, v)
      BY <2>1 DEF Right
    <2> QED BY <1>2, <1>5, <2>1, <2>2 DEF FilesGoRight, Has
  <1>6. CASE treeFiles' = treeFiles
    BY <1>6, SameFilesAreRight
  <1> QED BY <1>3, <1>4, <1>5, <1>6 DEF LandsAs

-----------------------------------------------------------------------------
(* What a step that is not a user's keeps.                                 *)

LEMMA ConsistentStays ==
    ASSUME TreeVarsOK, Consistent, treeMeant' = treeMeant, FilesGoRight,
           \A k \in Member : \A f \in Arriving(k)' : f \in Arriving(k) \/ GoodFrame(k, f)',
           \A k \in Member : \A e \in Seen(k)' : e \in Seen(k) \/ GoodEvent(k, e)',
           \A k \in Member : \A p \in Reading(k)' : p \in Reading(k) \/ GoodRead(k, p)'
    PROVE  Consistent'
  <1>1. ASSUME NEW k \in Member, NEW f \in Arriving(k) PROVE GoodFrame(k, f)'
    <2>1. f \in TreeFrame /\ GoodFrame(k, f)
      BY QueueTypes DEF Consistent
    <2>2. CASE f \in WriteFrame
      BY <2>1, <2>2, FramePaths DEF GoodFrame, Right, Writes
    <2>3. CASE f \in MoveFrame
      <3>1. f.path \in Path /\ f.to \in Path /\ f.type \in {"FILE_DELETE", "FILE_RENAME"}
        BY <2>1, <2>3, FramePaths
      <3>2. f.type = "FILE_RENAME" => treeFiles'[k][f.path] \in {treeFiles[k][f.path], "none"}
        BY <2>1, <3>1 DEF GoodFrame, FilesGoRight
      <3> QED BY <2>1, <3>1, <3>2 DEF GoodFrame, Right, Writes, Has
    <2>4. CASE f \in RequestFrame
      <3>1. f.path \in Shared /\ f.path \in Path /\ f.type = "FILE_REQUEST"
        BY <2>1, <2>4, FramePaths
      <3>2. treeFiles'[k][f.path] # "none" => Right(f.path, treeFiles'[k][f.path])
        BY <2>1, <3>1 DEF GoodFrame, FilesGoRight
      <3> QED BY <3>1, <3>2 DEF GoodFrame, Writes, Right, Has
    <2>5. CASE f \in ShareFrame
      BY <2>1, <2>5, FramePaths DEF GoodFrame, Writes
    <2> QED BY <2>1, <2>2, <2>3, <2>4, <2>5, FramePaths
  <1>2. ASSUME NEW k \in Member, NEW e \in Seen(k) PROVE GoodEvent(k, e)'
    <2>1. e \in EventRecord /\ GoodEvent(k, e)
      BY QueueTypes DEF Consistent
    <2>2. \A p \in e.created : p \in Path
      BY <2>1 DEF EventRecord
    <2> QED BY <2>1, <2>2 DEF GoodEvent, FilesGoRight, Right
  <1>3. ASSUME NEW k \in Member, NEW p \in Reading(k) PROVE GoodRead(k, p)'
    <2>1. GoodRead(k, p) /\ p \in Path
      BY QueueTypes DEF Consistent, Shared
    <2> QED BY <2>1 DEF GoodRead, FilesGoRight, Right
  <1> QED BY <1>1, <1>2, <1>3 DEF Consistent

LEMMA CompleteStays ==
    ASSUME Complete, treeMeant' = treeMeant, FilesGoRight,
           \A p \in Shared, k \in Member :
               /\ treeMeant[p] = "none" /\ Deleted(p, k) => Gone(p, k)'
               /\ TreeWritten(p, k) => Right(p, treeFiles[k][p])' \/ TreeWritten(p, k)'
               /\ (\E n \in Member : p \in Reading(n)) => Come(p, k)'
               /\ Begins(p) /\ treeMeant[p] = "none" => Gone(p, k)'
               /\ Begins(p) /\ treeMeant[p] # "none" => Come(p, k)'
    PROVE  Complete'
  <1> SUFFICES ASSUME NEW p \in Shared, NEW k \in Member
               PROVE  /\ treeMeant[p] = "none" => Gone(p, k)'
                      /\ treeMeant[p] \notin {"none", "untouched"} => Come(p, k)'
    BY DEF Complete
  <1>0. p \in Path
    BY DEF Shared
  <1>1. ASSUME treeMeant[p] = "none" PROVE Gone(p, k)'
    <2>1. ~Has(k, p) => ~Has(k, p)'
      BY <1>0, <1>1 DEF FilesGoRight, Has
    <2> QED BY <1>1, <2>1 DEF Complete, Gone
  <1>2. ASSUME treeMeant[p] \notin {"none", "untouched"} PROVE Come(p, k)'
    <2>1. Right(p, treeFiles[k][p]) => Right(p, treeFiles[k][p])'
      BY <1>0 DEF FilesGoRight, Right
    <2>2. Come(p, k)
      BY <1>2 DEF Complete
    <2> QED BY <1>2, <2>1, <2>2 DEF Come
  <1> QED BY <1>1, <1>2

LEMMA AskedStays ==
    ASSUME TreeVarsOK, TreeAsked, treeMeant' = treeMeant, treeAsked' = treeAsked, FilesGoRight,
           \A m \in Member : \A p \in treeAsked[m] :
               /\ TreeWritten(p, m) => Right(p, treeFiles[m][p])' \/ TreeWritten(p, m)'
               /\ treeMeant[p] = "untouched" /\ Calm(p) /\ (\A n \in Member : Has(n, p) => AskedOf(p, m, n))
                     => TreeAnswered(p, m)'
    PROVE  TreeAsked'
  <1> USE NoneIsNoContent
  <1> SUFFICES ASSUME NEW m \in Member, NEW p \in treeAsked[m], treeMeant[p] = "untouched" PROVE TreeAnswered(p, m)'
    BY DEF TreeAsked
  <1>1. p \in Shared /\ p \in Path
    BY DEF TreeVarsOK, SyncOK, Shared
  <1>2. Has(m, p) => Has(m, p)'
    <2>1. Has(m, p) => Right(p, treeFiles[m][p])
      BY <1>1 DEF TreeVarsOK, FilesOK, Has, Right
    <2> QED BY <1>1, <2>1 DEF FilesGoRight, Has, Right
  <1>3. Right(p, treeFiles[m][p])' => Has(m, p)'
    BY DEF Right, Has
  <1>4. TreeAnswered(p, m)
    BY DEF TreeAsked
  <1> QED BY <1>2, <1>3, <1>4 DEF TreeAnswered

-----------------------------------------------------------------------------
(* Reporting, reading and receiving keep a turn in order.                  *)

LEMMA DeletionFrames ==
    ASSUME NEW S
    PROVE  /\ \A f \in Deletions(S) : f.type = "FILE_DELETE" /\ f.path \in S
           /\ \A p \in S : \E f \in Deletions(S) : f.type = "FILE_DELETE" /\ f.path = p
  <1>1. \A p \in S : FileFrame("FILE_DELETE", p, p, "").type = "FILE_DELETE" /\ FileFrame("FILE_DELETE", p, p, "").path = p
    BY Zenon DEF FileFrame
  <1> QED BY <1>1, Zenon DEF Deletions

LEMMA DeliverKeeps ==
    ASSUME TreeInv, OneTurn, NEW m \in Member, DeliverEvent(m)
    PROVE  OneTurn'
  <1> USE DEF OneTurn
  <1>1. TreeVarsOK /\ QueuesOK /\ FlagIsOurs
    BY DEF TreeInv, TreeVarsOK
  <1>2. /\ treeFiles' = treeFiles /\ treeMeant' = treeMeant /\ treeAsked' = treeAsked
        /\ treePulls' = treePulls /\ treeTasks' = treeTasks
    BY DEF DeliverEvent, treeSync, treeUsers
  <1>3. PICK e \in Seen(m) :
            /\ e \in EventRecord
            /\ Seen(m)' \subseteq Seen(m) /\ Seen(m) \subseteq Seen(m)' \cup {e}
            /\ treeApplying[m] => \A n \in Member : Reading(n)' = Reading(n) /\ Arriving(n)' = Arriving(n)
            /\ ~treeApplying[m] =>
                  /\ Reading(m)' = Reading(m) \cup {p \in e.created : p \in Shared}
                  /\ \A n \in Member \ {m} : Reading(n)' = Reading(n)
                  /\ Arriving(m)' = Arriving(m)
                  /\ \A n \in Member \ {m} : Arriving(n)' = Arriving(n) \cup Deletions(e.deleted)
    BY <1>1, DeliverGives
  <1>4. \A n \in Member \ {m} : Seen(n)' = Seen(n)
    BY <1>1, DeliverGives
  <1>5. \A n \in Member : Seen(n)' \subseteq Seen(n)
    BY <1>3, <1>4
  <1>6. FilesGoRight
    BY <1>2, SameFilesAreRight
  <1>7. PullAlone'
    BY <1>2 DEF PullAlone
  <1>8. GoodEvent(m, e)
    BY DEF Consistent
  <1>9. CASE treeApplying[m]
    <2>1. \A n \in Member : Reading(n)' = Reading(n) /\ Arriving(n)' = Arriving(n)
      BY <1>3, <1>9
    <2>2. Consistent'
      BY <1>1, <1>2, <1>5, <1>6, <2>1, ConsistentStays
    <2>3. \A p \in Path : \A k \in Member : (TreeWritten(p, k)' <=> TreeWritten(p, k)) /\ (Deleted(p, k)' <=> Deleted(p, k))
      BY <2>1 DEF TreeWritten, Deleted
    <2>4. ASSUME NEW p \in Path, Begins(p) PROVE Begins(p)'
      <3>0. PICK k \in Member : \E d \in Seen(k) : Begun(k, d) /\ p \in d.created \cup d.deleted
        BY <2>4 DEF Begins
      <3>1. PICK d \in Seen(k) : Begun(k, d) /\ p \in d.created \cup d.deleted
        BY <3>0
      \* The flag is a handler's: the event of who began is not lost.
      <3>2. k # m
        BY <1>1, <1>9, <3>1 DEF Begun, FlagIsOurs
      <3>3. Seen(k)' = Seen(k)
        BY <1>4, <3>2
      <3>4. Begun(k, d)'
        BY <1>2, <1>5, <2>1, <3>1, <3>3 DEF Begun, Has
      <3> QED BY <3>1, <3>3, <3>4 DEF Begins
    <2>5. Complete'
      BY <1>2, <1>6, <2>1, <2>3, <2>4, CompleteStays DEF Gone, Come, Shared
    <2>6. \A p : Calm(p) => Calm(p)'
      BY <1>5, <2>1 DEF Calm, TreeWritten
    <2>7. \A p : \A a, n \in Member : AskedOf(p, a, n) => AskedOf(p, a, n)'
      BY <2>1 DEF AskedOf
    <2>8. \A a \in Member : \A p \in treeAsked[a] : TreeWritten(p, a) => TreeWritten(p, a)'
      BY <2>1 DEF TreeWritten
    <2>9. TreeAsked'
      BY <1>1, <1>2, <1>6, <2>6, <2>7, <2>8, AskedStays DEF TreeAnswered, Has
    <2>10. SameAsker'
      BY <2>1 DEF SameAsker
    <2> QED BY <1>7, <2>2, <2>5, <2>9, <2>10
  <1>10. CASE ~treeApplying[m]
    <2>1. /\ Reading(m)' = Reading(m) \cup {p \in e.created : p \in Shared}
          /\ \A n \in Member \ {m} : Reading(n)' = Reading(n)
          /\ Arriving(m)' = Arriving(m)
          /\ \A n \in Member \ {m} : Arriving(n)' = Arriving(n) \cup Deletions(e.deleted)
      BY <1>3, <1>10
    <2>2. /\ \A n \in Member : Arriving(n) \subseteq Arriving(n)' /\ Reading(n) \subseteq Reading(n)'
          /\ \A n \in Member : \A f \in Arriving(n)' : f \in Arriving(n) \/ f \in Deletions(e.deleted)
      BY <2>1
    <2>3. \A k \in Member : \A f \in Arriving(k)' : f \in Arriving(k) \/ GoodFrame(k, f)'
      <3>1. \A f \in Deletions(e.deleted) : f.type = "FILE_DELETE" /\ treeMeant[f.path] = "none"
        BY <1>8, DeletionFrames DEF GoodEvent
      <3>2. \A k \in Member : \A f \in Deletions(e.deleted) : GoodFrame(k, f)'
        BY <1>2, <3>1 DEF GoodFrame, Writes
      <3> QED BY <2>2, <3>2
    <2>4. \A k \in Member : \A p \in Reading(k)' : p \in Reading(k) \/ GoodRead(k, p)'
      <3>1. \A p \in e.created : p \in Shared => GoodRead(m, p)'
        BY <1>2, <1>8 DEF GoodEvent, GoodRead, Right
      <3> QED BY <2>1, <3>1
    <2>5. Consistent'
      BY <1>1, <1>2, <1>5, <1>6, <2>3, <2>4, ConsistentStays
    <2>6. \A p \in Path : \A k \in Member : (TreeWritten(p, k) => TreeWritten(p, k)') /\ (Deleted(p, k) => Deleted(p, k)')
      BY <2>2 DEF TreeWritten, Deleted
    <2>7. ASSUME NEW p \in Shared, NEW k \in Member, Begins(p)
          PROVE  (treeMeant[p] = "none" => Gone(p, k)') /\ (treeMeant[p] # "none" => Come(p, k)')
      <3>0. PICK j \in Member : \E d \in Seen(j) : Begun(j, d) /\ p \in d.created \cup d.deleted
        BY <2>7 DEF Begins
      <3>1. PICK d \in Seen(j) : Begun(j, d) /\ p \in d.created \cup d.deleted
        BY <3>0
      <3>2. d = e /\ (p \in e.deleted => ~Has(m, p))
        BY <3>1 DEF Begun
      <3>3. CASE treeMeant[p] = "none"
        <4>1. p \in e.deleted
          BY <1>8, <3>1, <3>2, <3>3 DEF GoodEvent
        <4>2. k = m => ~Has(k, p)'
          BY <1>2, <3>2, <4>1 DEF Has
        <4>3. k # m => Deleted(p, k)'
          BY <2>1, <4>1, DeletionFrames DEF Deleted
        <4> QED BY <3>3, <4>2, <4>3 DEF Gone
      <3>4. CASE treeMeant[p] # "none"
        <4>1. p \in e.created
          BY <1>8, <3>1, <3>2, <3>4 DEF GoodEvent
        <4>2. p \in Reading(m)'
          BY <2>1, <4>1
        <4> QED BY <3>4, <4>2 DEF Come
      <3> QED BY <3>3, <3>4
    <2>8. Complete'
      <3>1. \A p \in Shared, k \in Member : Deleted(p, k) => Gone(p, k)'
        BY <2>6 DEF Gone, Shared
      <3>2. \A p \in Shared, k \in Member : TreeWritten(p, k) => TreeWritten(p, k)'
        BY <2>6 DEF Shared
      <3>3. \A p \in Shared, k \in Member : (\E n \in Member : p \in Reading(n)) => Come(p, k)'
        BY <2>2 DEF Come
      <3> QED BY <1>2, <1>6, <2>7, <3>1, <3>2, <3>3, CompleteStays
    <2>9. ASSUME NEW p, Calm(p) PROVE Calm(p)'
      <3>1. \A n \in Member : ~TreeWritten(p, n)'
        <4>1. \A f \in Deletions(e.deleted) : ~Writes(f)
          BY DeletionFrames DEF Writes
        <4> QED BY <2>2, <2>9, <4>1 DEF Calm, TreeWritten
      <3>2. p \notin e.created
        BY <2>9 DEF Calm
      <3> QED BY <1>5, <2>1, <2>9, <3>1, <3>2 DEF Calm
    <2>10. \A p : \A a, n \in Member : AskedOf(p, a, n) => AskedOf(p, a, n)'
      BY <2>2 DEF AskedOf
    <2>11. \A a \in Member : \A p \in treeAsked[a] : TreeWritten(p, a) => TreeWritten(p, a)'
      BY <2>2 DEF TreeWritten
    <2>12. TreeAsked'
      BY <1>1, <1>2, <1>6, <2>9, <2>10, <2>11, AskedStays DEF TreeAnswered, Has
    <2>13. SameAsker'
      <3>1. \A n \in Member : \A f \in Arriving(n)' : f.type = "FILE_REQUEST" => f \in Arriving(n)
        BY <2>2, DeletionFrames
      <3> QED BY <3>1 DEF SameAsker
    <2> QED BY <1>7, <2>5, <2>8, <2>12, <2>13
  <1> QED BY <1>9, <1>10

LEMMA ReadKeeps ==
    ASSUME TreeInv, OneTurn, NEW m \in Member, NEW i \in DOMAIN treeReads[m], FileRead(m, i)
    PROVE  OneTurn'
  <1> USE DEF OneTurn
  <1>1. TreeVarsOK /\ QueuesOK /\ FilesOK
    BY DEF TreeInv, TreeVarsOK
  <1>2. /\ treeFiles' = treeFiles /\ treeMeant' = treeMeant /\ treeAsked' = treeAsked
        /\ treePulls' = treePulls /\ treeTasks' = treeTasks
    BY DEF FileRead, treeSync, treeUsers
  <1>3. \A n \in Member : Seen(n)' = Seen(n)
    BY <1>1, ReadGives
  <1>4. PICK q \in Reading(m) :
            LET f == FileFrame("FILE_CREATE", q, q, SentContent(m, q))
            IN /\ q \in Shared /\ f \in WriteFrame
               /\ Reading(m)' \subseteq Reading(m) /\ Reading(m) \subseteq Reading(m)' \cup {q}
               /\ \A n \in Member \ {m} : Reading(n)' = Reading(n)
               /\ Arriving(m)' = Arriving(m)
               /\ \A n \in Member \ {m} : Arriving(n)' = Arriving(n) \cup {f}
    BY <1>1, ReadGives
  <1> DEFINE f == FileFrame("FILE_CREATE", q, q, SentContent(m, q))
  <1>5. GoodRead(m, q)
    BY DEF Consistent
  <1>6. f.type = "FILE_CREATE" /\ f.path = q /\ f.content = treeFiles[m][q]
    <2>1. Has(m, q)
      BY <1>5, NoneIsNoContent DEF GoodRead, Right, Has
    <2> QED BY <2>1 DEF FileFrame, SentContent
  <1>7. /\ q \in Shared
        /\ Reading(m)' \subseteq Reading(m) /\ Reading(m) \subseteq Reading(m)' \cup {q}
        /\ \A n \in Member \ {m} : Reading(n)' = Reading(n)
        /\ Arriving(m)' = Arriving(m)
        /\ \A n \in Member \ {m} : Arriving(n)' = Arriving(n) \cup {f}
    BY <1>4
  <1> HIDE DEF f
  <1>8. /\ \A n \in Member : Arriving(n) \subseteq Arriving(n)' /\ Reading(n)' \subseteq Reading(n)
        /\ \A n \in Member : \A g \in Arriving(n)' : g \in Arriving(n) \/ g = f
    BY <1>7
  <1>9. FilesGoRight
    BY <1>2, SameFilesAreRight
  <1>10. PullAlone'
    BY <1>2 DEF PullAlone
  <1>11. Consistent'
    <2>1. \A k \in Member : \A g \in Arriving(k)' : g \in Arriving(k) \/ GoodFrame(k, g)'
      <3>1. \A k \in Member : \A g : g = f => GoodFrame(k, g)'
        BY <1>2, <1>5, <1>6, <1>7 DEF GoodFrame, GoodRead, Writes, Right
      <3> QED BY <1>8, <3>1
    <2> QED BY <1>1, <1>2, <1>3, <1>8, <1>9, <2>1, ConsistentStays
  <1>12. \A p : \A k \in Member : (TreeWritten(p, k) => TreeWritten(p, k)') /\ (Deleted(p, k) => Deleted(p, k)')
    BY <1>8 DEF TreeWritten, Deleted
  <1>13. Complete'
    <2>1. \A p : ~Begins(p)
      BY DEF Begins, Begun
    <2>2. ASSUME NEW p \in Shared, NEW k \in Member, NEW n \in Member, p \in Reading(n) PROVE Come(p, k)'
      <3>1. CASE p \in Reading(n)'
        BY <3>1 DEF Come
      <3>2. CASE p = q /\ k = m
        BY <1>2, <1>5, <3>2 DEF GoodRead, Come, Right
      <3>3. CASE p = q /\ k # m
        <4>1. f \in Arriving(k)'
          BY <1>7, <3>3
        <4>2. TreeWritten(p, k)'
          BY <1>6, <3>3, <4>1 DEF TreeWritten, Writes
        <4> QED BY <4>2 DEF Come
      <3> QED BY <1>7, <2>2, <3>1, <3>2, <3>3
    <2>3. \A p \in Shared, k \in Member : Deleted(p, k) => Gone(p, k)'
      BY <1>12 DEF Gone
    <2> QED BY <1>2, <1>9, <1>12, <2>1, <2>2, <2>3, CompleteStays
  <1>14. ASSUME NEW p, Calm(p) PROVE Calm(p)'
    <2>1. p # q
      BY <1>14 DEF Calm
    <2>2. \A n \in Member : ~TreeWritten(p, n)'
      BY <1>6, <1>8, <1>14, <2>1 DEF Calm, TreeWritten
    <2> QED BY <1>3, <1>8, <1>14, <2>2 DEF Calm
  <1>15. \A p : \A a, n \in Member : AskedOf(p, a, n) => AskedOf(p, a, n)'
    BY <1>8 DEF AskedOf
  <1>16. TreeAsked'
    BY <1>1, <1>2, <1>9, <1>12, <1>14, <1>15, AskedStays DEF TreeAnswered, Has
  <1>17. SameAsker'
    <2>1. \A n \in Member : \A g \in Arriving(n)' : g.type = "FILE_REQUEST" => g \in Arriving(n)
      BY <1>6, <1>8
    <2> QED BY <2>1 DEF SameAsker
  <1> QED BY <1>10, <1>11, <1>13, <1>16, <1>17

LEMMA ReceiveKeeps ==
    ASSUME TreeInv, OneTurn, NEW m \in Member, ReceiveFrame(m)
    PROVE  OneTurn'
  <1> USE DEF OneTurn
  <1>1. TreeVarsOK /\ QueuesOK /\ FilesOK
    BY DEF TreeInv, TreeVarsOK
  <1>2. /\ treeFiles' = treeFiles /\ treeMeant' = treeMeant /\ treeAsked' = treeAsked
        /\ treePulls' = treePulls
    BY DEF ReceiveFrame, treeUsers
  <1>3. \A n \in Member : Seen(n)' = Seen(n) /\ Reading(n)' = Reading(n)
    BY <1>1, ReceiveGives
  <1>4. \A n \in Member \ {m} : treeTasks'[n] = treeTasks[n]
    BY <1>1, ReceiveGives
  <1>5. PICK f \in Arriving(m) :
            \/ /\ f \in HandlerFrame
               /\ \A n \in Member : Arriving(n)' = Arriving(n)
            \/ /\ f \in RequestFrame /\ Has(m, f.path)
               /\ treeTasks' = treeTasks
               /\ LET g == FileFrame("FILE_CONTENT", f.path, f.to, treeFiles[m][f.path])
                  IN /\ g \in WriteFrame
                     /\ \A n \in Member : n = f.to => g \in Arriving(n)'
                     /\ \A n \in Member : Arriving(n)' \subseteq Arriving(n) \cup (IF n = f.to THEN {g} ELSE {})
                     /\ \A n \in Member : Arriving(n) \subseteq Arriving(n)' \cup (IF n = m THEN {f} ELSE {})
            \/ /\ f \in RequestFrame \cup ShareFrame /\ (f \in RequestFrame => ~Has(m, f.path))
               /\ treeTasks' = treeTasks
               /\ Arriving(m)' \subseteq Arriving(m) /\ Arriving(m) \subseteq Arriving(m)' \cup {f}
               /\ \A n \in Member \ {m} : Arriving(n)' = Arriving(n)
    <2>1. \E f \in Arriving(m) :
            \/ /\ f \in HandlerFrame /\ treeTasks'[m] # << >>
               /\ \A n \in Member : Arriving(n)' = Arriving(n)
            \/ /\ f \in RequestFrame /\ Has(m, f.path)
               /\ treeTasks' = treeTasks /\ treeApplying' = treeApplying
               /\ LET g == FileFrame("FILE_CONTENT", f.path, f.to, treeFiles[m][f.path])
                  IN /\ g \in WriteFrame
                     /\ \A n \in Member : n = f.to => g \in Arriving(n)'
                     /\ \A n \in Member : Arriving(n)' \subseteq Arriving(n) \cup (IF n = f.to THEN {g} ELSE {})
                     /\ \A n \in Member : Arriving(n) \subseteq Arriving(n)' \cup (IF n = m THEN {f} ELSE {})
            \/ /\ f \in RequestFrame \cup ShareFrame /\ (f \in RequestFrame => ~Has(m, f.path))
               /\ treeTasks' = treeTasks /\ treeApplying' = treeApplying
               /\ Arriving(m)' \subseteq Arriving(m) /\ Arriving(m) \subseteq Arriving(m)' \cup {f}
               /\ \A n \in Member \ {m} : Arriving(n)' = Arriving(n)
      BY <1>1, ReceiveGives
    <2> QED BY <2>1, Zenon
  <1>6. f \in TreeFrame /\ GoodFrame(m, f)
    BY <1>1, QueueTypes DEF Consistent
  <1>7. FilesGoRight
    BY <1>2, SameFilesAreRight
  <1>8. CASE f \in HandlerFrame /\ \A n \in Member : Arriving(n)' = Arriving(n)
    <2>1. \A n \in Member : Arriving(n)' = Arriving(n)
      BY <1>8
    <2>2. Consistent'
      BY <1>1, <1>2, <1>3, <1>7, <2>1, ConsistentStays
    <2>3. \A p \in Path : \A k \in Member : (TreeWritten(p, k)' <=> TreeWritten(p, k)) /\ (Deleted(p, k)' <=> Deleted(p, k))
      BY <2>1 DEF TreeWritten, Deleted
    <2>4. ASSUME NEW p \in Path, Begins(p) PROVE Begins(p)'
      <3>0. PICK k \in Member : \E d \in Seen(k) : Begun(k, d) /\ p \in d.created \cup d.deleted
        BY <2>4 DEF Begins
      <3>1. PICK d \in Seen(k) : Begun(k, d) /\ p \in d.created \cup d.deleted
        BY <3>0
      \* Who began receives nothing as yet.
      <3>2. k # m
        BY <3>1 DEF Begun
      <3>3. Begun(k, d)'
        BY <1>2, <1>3, <1>4, <2>1, <3>1, <3>2 DEF Begun, Has
      <3> QED BY <1>3, <3>1, <3>3 DEF Begins
    <2>5. Complete'
      BY <1>2, <1>3, <1>7, <2>1, <2>3, <2>4, CompleteStays DEF Gone, Come, Shared
    <2>6. \A p : Calm(p) => Calm(p)'
      BY <1>3, <2>1 DEF Calm, TreeWritten
    <2>7. \A p : \A a, n \in Member : AskedOf(p, a, n) => AskedOf(p, a, n)'
      BY <2>1 DEF AskedOf
    <2>8. \A a \in Member : \A p \in treeAsked[a] : TreeWritten(p, a) => TreeWritten(p, a)'
      BY <2>1 DEF TreeWritten
    <2>9. TreeAsked'
      BY <1>1, <1>2, <1>7, <2>6, <2>7, <2>8, AskedStays DEF TreeAnswered, Has
    <2>10. SameAsker'
      BY <2>1 DEF SameAsker
    <2>11. PullAlone'
      <3>1. f.type # "ARCH_SHARE"
        BY <1>8 DEF HandlerFrame, WriteFrame, MoveFrame
      <3> QED BY <1>2, <3>1 DEF PullAlone
    <2> QED BY <2>2, <2>5, <2>9, <2>10, <2>11
  <1>9. CASE f \in RequestFrame \cup ShareFrame
    <2>1. /\ f.type \in {"FILE_REQUEST", "ARCH_SHARE"} /\ (f \in RequestFrame <=> f.type = "FILE_REQUEST")
          /\ ~Writes(f) /\ f \notin HandlerFrame
      BY <1>9 DEF RequestFrame, ShareFrame, HandlerFrame, WriteFrame, MoveFrame, Writes
    <2>2. treeTasks' = treeTasks
      BY <1>5, <2>1
    <2>3. \A p : ~Begins(p)
      <3>1. \A k \in Member : \A d \in Seen(k) : ~Begun(k, d)
        BY <2>1 DEF Begun
      <3> QED BY <3>1 DEF Begins
    <2>4. \A n \in Member : Arriving(n) \subseteq Arriving(n)' \cup (IF n = m THEN {f} ELSE {})
      BY <1>5, <2>1
    <2>5. \A p : \A k \in Member : (TreeWritten(p, k) => TreeWritten(p, k)') /\ (Deleted(p, k) => Deleted(p, k)')
      <3>1. \A k \in Member : \A g \in Arriving(k) : g \in Arriving(k)' \/ g = f
        BY <2>4
      <3> QED BY <2>1, <3>1 DEF TreeWritten, Deleted
    <2>6. Complete'
      <3>1. \A p \in Shared, k \in Member : Deleted(p, k) => Gone(p, k)'
        BY <2>5 DEF Gone
      <3>2. \A p \in Shared, k \in Member : (\E n \in Member : p \in Reading(n)) => Come(p, k)'
        BY <1>3 DEF Come
      <3> QED BY <1>2, <1>7, <2>3, <2>5, <3>1, <3>2, CompleteStays
    <2>7. CASE f \in RequestFrame /\ Has(m, f.path)
      <3> DEFINE g == FileFrame("FILE_CONTENT", f.path, f.to, treeFiles[m][f.path])
      <3>1. g.type = "FILE_CONTENT" /\ g.path = f.path /\ g.content = treeFiles[m][f.path]
        BY DEF FileFrame
      <3>2. /\ \A n \in Member : n = f.to => g \in Arriving(n)'
            /\ \A n \in Member : Arriving(n)' \subseteq Arriving(n) \cup (IF n = f.to THEN {g} ELSE {})
        BY <1>5, <2>1, <2>7
      <3> HIDE DEF g
      <3>3. \A n \in Member : \A h \in Arriving(n)' : h \in Arriving(n) \/ h = g
        BY <3>2
      <3>4. f.path \in Shared /\ f.to \in Member /\ Right(f.path, treeFiles[m][f.path])
        BY <1>6, <2>1, <2>7, FramePaths DEF GoodFrame
      <3>5. Consistent'
        <4>1. \A k \in Member : \A h : h = g => GoodFrame(k, h)'
          BY <1>2, <3>1, <3>4 DEF GoodFrame, Writes, Right
        <4> QED BY <1>1, <1>2, <1>3, <1>7, <3>3, <4>1, ConsistentStays
      <3>6. TreeAsked'
        <4>1. ASSUME NEW a \in Member, NEW p \in treeAsked[a], Calm(p),
                     \A n \in Member : Has(n, p) => AskedOf(p, a, n)
              PROVE  TreeAnswered(p, a)'
          <5>1. CASE p = f.path
            \* Whoever asked m for p is the only one who asks.
            <6>1. f.to = a
              BY <2>1, <2>7, <4>1, <5>1 DEF AskedOf, SameAsker
            <6>2. TreeWritten(p, a)'
              BY <3>1, <3>2, <5>1, <6>1 DEF TreeWritten, Writes
            <6> QED BY <6>2 DEF TreeAnswered
          <5>2. CASE p # f.path
            <6>1. \A n \in Member : ~TreeWritten(p, n)'
              BY <3>1, <3>3, <4>1, <5>2 DEF Calm, TreeWritten
            <6>2. Calm(p)'
              BY <1>3, <4>1, <6>1 DEF Calm
            <6>3. \A n \in Member : AskedOf(p, a, n) => AskedOf(p, a, n)'
              BY <2>4, <5>2 DEF AskedOf
            <6> QED BY <1>2, <4>1, <6>2, <6>3 DEF TreeAnswered, Has
          <5> QED BY <5>1, <5>2
        <4> QED BY <1>1, <1>2, <1>7, <2>5, <4>1, AskedStays
      <3>7. SameAsker'
        <4>1. \A n \in Member : \A h \in Arriving(n)' : h.type = "FILE_REQUEST" => h \in Arriving(n)
          BY <3>1, <3>3
        <4> QED BY <4>1 DEF SameAsker
      <3>8. PullAlone'
        BY <1>2, <2>1, <2>7 DEF PullAlone
      <3> QED BY <2>6, <3>5, <3>6, <3>7, <3>8
    <2>8. CASE f \in RequestFrame => ~Has(m, f.path)
      <3>1. \A n \in Member : Arriving(n)' \subseteq Arriving(n)
        BY <1>5, <2>1, <2>8
      <3>2. Consistent'
        BY <1>1, <1>2, <1>3, <1>7, <3>1, ConsistentStays
      <3>3. TreeAsked'
        <4>1. \A p : Calm(p) => Calm(p)'
          BY <1>3, <3>1 DEF Calm, TreeWritten
        <4>2. ASSUME NEW p, NEW a \in Member, NEW n \in Member, Has(n, p), AskedOf(p, a, n)
              PROVE  AskedOf(p, a, n)'
          <5>1. PICK h \in Arriving(n) : h.type = "FILE_REQUEST" /\ h.path = p /\ h.to = a
            BY <4>2 DEF AskedOf
          <5>2. h \in Arriving(n)'
            BY <2>1, <2>4, <2>8, <4>2, <5>1
          <5> QED BY <5>1, <5>2 DEF AskedOf
        <4>3. \A n \in Member : \A p : Has(n, p)' <=> Has(n, p)
          BY <1>2 DEF Has
        <4>4. ASSUME NEW a \in Member, NEW p \in treeAsked[a], Calm(p),
                     \A n \in Member : Has(n, p) => AskedOf(p, a, n)
              PROVE  TreeAnswered(p, a)'
          BY <4>1, <4>2, <4>3, <4>4 DEF TreeAnswered
        <4> QED BY <1>1, <1>2, <1>7, <2>5, <4>4, AskedStays
      <3>4. SameAsker'
        BY <3>1 DEF SameAsker
      <3>5. PullAlone'
        BY <1>2, <1>3, <2>2, <3>1 DEF PullAlone
      <3> QED BY <2>6, <3>2, <3>3, <3>4, <3>5
    <2> QED BY <2>7, <2>8
  <1> QED BY <1>5, <1>8, <1>9

\* What an operation that lands makes of the files of m, and the event of it.
LandsWell(m, f) ==
    /\ \A n \in Member \ {m} : treeFiles'[n] = treeFiles[n]
    /\ \A p \in Path : Has(m, p)' => Has(m, p) \/ TreeWritten(p, m) \/ treeMeant[p] \notin {"none", "untouched"}
    /\ Writes(f) => Right(f.path, treeFiles'[m][f.path])
    /\ f.type = "FILE_DELETE" => ~Has(m, f.path)'
    /\ f.type = "FILE_RENAME" /\ Has(m, f.path)' => Has(m, f.path)
    /\ f.type \in {"FILE_CREATE", "FILE_CONTENT", "FILE_DELETE", "FILE_RENAME"}
Reports(m, f, e) ==
    /\ GoodEvent(m, e)'
    /\ \A p \in e.created : TreeWritten(p, m) \/ treeMeant[p] \notin {"none", "untouched"}
    /\ f.type = "FILE_RENAME" => e = [created |-> {f.to}, deleted |-> {f.path}] /\ ~Has(m, f.path)'

LEMMA LandsHow ==
    ASSUME TreeVarsOK, NEW m \in Member, NEW f \in Arriving(m), GoodFrame(m, f), LandsAs(m, f),
           treeMeant' = treeMeant
    PROVE  /\ LandsWell(m, f)
           /\ \/ Seen(m)' = Seen(m)
              \/ \E e : Seen(m)' = Seen(m) \cup {e} /\ Reports(m, f, e)
  <1> USE NoneIsNoContent
  <1>1. f \in TreeFrame
    BY QueueTypes
  <1>2. treeFiles \in [Member -> [Path -> FileContent \cup {"none"}]]
    BY DEF TreeVarsOK, FilesOK
  <1>3. CASE /\ f \in WriteFrame
             /\ treeFiles' = [treeFiles EXCEPT ![m][f.path] = f.content]
             /\ Has(m, f.path) => Seen(m)' = Seen(m)
             /\ ~Has(m, f.path) => Seen(m)' = Seen(m) \cup {[created |-> {f.path}, deleted |-> {}]}
    <2>1. /\ Right(f.path, f.content) /\ f.path \in Path /\ f.path \in Shared
          /\ f.type \in {"FILE_CREATE", "FILE_CONTENT"} /\ TreeWritten(f.path, m)
      BY <1>1, <1>3, FramePaths DEF GoodFrame, Writes, TreeWritten
    <2>2. /\ \A n \in Member \ {m} : treeFiles'[n] = treeFiles[n]
          /\ \A p \in Path : p # f.path => treeFiles'[m][p] = treeFiles[m][p]
          /\ treeFiles'[m][f.path] = f.content
      BY <1>2, <1>3, <2>1
    <2>3. LandsWell(m, f)
      BY <2>1, <2>2 DEF LandsWell, Has
    <2> DEFINE e == [created |-> {f.path}, deleted |-> {}]
    <2>4. e.created = {f.path} /\ e.deleted = {}
      OBVIOUS
    <2>5. ~Has(m, f.path) => Seen(m)' = Seen(m) \cup {e}
      BY <1>3
    <2> HIDE DEF e
    <2>6. GoodEvent(m, e)'
      BY <2>1, <2>2, <2>4 DEF GoodEvent, Right
    <2>7. Reports(m, f, e)
      BY <2>1, <2>4, <2>6 DEF Reports
    <2> QED BY <1>3, <2>3, <2>5, <2>7
  <1>4. CASE /\ f \in MoveFrame /\ f.type = "FILE_RENAME" /\ Has(m, f.path) /\ ~Has(m, f.to)
             /\ treeFiles' = [treeFiles EXCEPT ![m][f.path] = "none", ![m][f.to] = treeFiles[m][f.path]]
             /\ Seen(m)' = Seen(m) \cup {[created |-> {f.to}, deleted |-> {f.path}]}
    <2>1. /\ treeMeant[f.path] = "none" /\ treeMeant[f.to] \notin {"none", "untouched"}
          /\ f.to \in Shared => Right(f.to, treeFiles[m][f.path])
          /\ f.path \in Path /\ f.to \in Path /\ f.path # f.to /\ ~Writes(f)
      BY <1>1, <1>4, FramePaths DEF GoodFrame, Writes
    <2>2. /\ \A n \in Member \ {m} : treeFiles'[n] = treeFiles[n]
          /\ \A p \in Path : p # f.path /\ p # f.to => treeFiles'[m][p] = treeFiles[m][p]
          /\ treeFiles'[m][f.path] = "none" /\ treeFiles'[m][f.to] = treeFiles[m][f.path]
      BY <1>2, <1>4, <2>1
    <2>3. LandsWell(m, f)
      BY <1>4, <2>1, <2>2 DEF LandsWell, Has
    <2> DEFINE e == [created |-> {f.to}, deleted |-> {f.path}]
    <2>4. e.created = {f.to} /\ e.deleted = {f.path} /\ e = [created |-> {f.to}, deleted |-> {f.path}]
      OBVIOUS
    <2>5. Seen(m)' = Seen(m) \cup {e}
      BY <1>4
    <2> HIDE DEF e
    <2>6. GoodEvent(m, e)'
      BY <2>1, <2>2, <2>4 DEF GoodEvent, Right
    <2>7. ~Has(m, f.path)'
      BY <2>2 DEF Has
    <2>8. Reports(m, f, e)
      BY <2>1, <2>4, <2>6, <2>7 DEF Reports
    <2> QED BY <2>3, <2>5, <2>8
  <1>5. CASE /\ f \in MoveFrame /\ f.type = "FILE_DELETE"
             /\ treeFiles' = [treeFiles EXCEPT ![m][f.path] = "none"]
             /\ Seen(m)' = Seen(m) \cup {[created |-> {}, deleted |-> {f.path}]}
    <2>1. treeMeant[f.path] = "none" /\ f.path \in Path /\ ~Writes(f)
      BY <1>1, <1>5, FramePaths DEF GoodFrame, Writes
    <2>2. /\ \A n \in Member \ {m} : treeFiles'[n] = treeFiles[n]
          /\ \A p \in Path : p # f.path => treeFiles'[m][p] = treeFiles[m][p]
          /\ treeFiles'[m][f.path] = "none"
      BY <1>2, <1>5, <2>1
    <2>3. LandsWell(m, f)
      BY <1>5, <2>1, <2>2 DEF LandsWell, Has
    <2> DEFINE e == [created |-> {}, deleted |-> {f.path}]
    <2>4. e.created = {} /\ e.deleted = {f.path}
      OBVIOUS
    <2>5. Seen(m)' = Seen(m) \cup {e}
      BY <1>5
    <2> HIDE DEF e
    <2>6. GoodEvent(m, e)'
      BY <2>1, <2>4 DEF GoodEvent
    <2>7. Reports(m, f, e)
      BY <1>5, <2>4, <2>6 DEF Reports
    <2> QED BY <2>3, <2>5, <2>7
  <1>6. CASE /\ f \in MoveFrame /\ treeFiles' = treeFiles /\ Seen(m)' = Seen(m)
             /\ f.type = "FILE_DELETE" => ~Has(m, f.path)
    <2>1. f.type \in {"FILE_DELETE", "FILE_RENAME"} /\ ~Writes(f)
      BY <1>1, <1>6, FramePaths DEF Writes
    <2>2. LandsWell(m, f)
      BY <1>6, <2>1 DEF LandsWell, Has
    <2> QED BY <1>6, <2>2
  <1> QED BY <1>3, <1>4, <1>5, <1>6 DEF LandsAs

LEMMA LandsKeeps ==
    ASSUME TreeInv, OneTurn, NEW m \in Member, NEW i \in DOMAIN treeTasks[m], TaskLands(m, i)
    PROVE  OneTurn'
  <1> USE DEF OneTurn
  <1>1. TreeVarsOK
    BY DEF TreeInv
  <1>2. treeMeant' = treeMeant /\ treeAsked' = treeAsked /\ treePulls' = treePulls
    BY DEF TaskLands, treeSync, treeUsers
  <1>3. /\ \A n \in Member : Reading(n)' = Reading(n)
        /\ \A n \in Member \ {m} : Seen(n)' = Seen(n) /\ Arriving(n)' = Arriving(n)
        /\ \A n \in Member \ {m} : treeTasks'[n] = treeTasks[n]
        /\ treeTasks[m] # << >>
    BY <1>1, LandsGives
  <1>4. PICK f \in Arriving(m) :
            /\ Arriving(m)' \subseteq Arriving(m) /\ Arriving(m) \subseteq Arriving(m)' \cup {f}
            /\ LandsAs(m, f)
    BY <1>1, LandsGives
  <1>5. GoodFrame(m, f)
    BY DEF Consistent
  <1>6. FilesGoRight
    BY <1>1, <1>4, <1>5, LandsRight
  <1>7. LandsWell(m, f) /\ (Seen(m)' = Seen(m) \/ \E e : Seen(m)' = Seen(m) \cup {e} /\ Reports(m, f, e))
    BY <1>1, <1>2, <1>4, <1>5, LandsHow
  <1>8. \A e \in Seen(m)' : e \in Seen(m) \/ Reports(m, f, e)
    BY <1>7
  <1>9. Seen(m) \subseteq Seen(m)'
    BY <1>7
  <1>10. \A n \in Member : Arriving(n)' \subseteq Arriving(n) /\ \A g \in Arriving(n) : g \in Arriving(n)' \/ (n = m /\ g = f)
    BY <1>3, <1>4
  <1>11. Consistent'
    <2>1. \A k \in Member : \A e \in Seen(k)' : e \in Seen(k) \/ GoodEvent(k, e)'
      BY <1>3, <1>8 DEF Reports
    <2> QED BY <1>1, <1>2, <1>3, <1>6, <1>10, <2>1, ConsistentStays
  <1>12. \A p, k : k \in Member /\ TreeWritten(p, k) => Right(p, treeFiles[k][p])' \/ TreeWritten(p, k)'
    BY <1>2, <1>7, <1>10 DEF TreeWritten, Writes, LandsWell, Right
  <1>13. Complete'
    <2>1. \A p \in Shared, k \in Member : Deleted(p, k) => Gone(p, k)'
      BY <1>7, <1>10 DEF Deleted, Gone, LandsWell
    <2>2. ASSUME NEW p, Begins(p) PROVE Begins(p)'
      <3>0. PICK k \in Member : \E d \in Seen(k) : Begun(k, d) /\ p \in d.created \cup d.deleted
        BY <2>2 DEF Begins
      <3>1. PICK d \in Seen(k) : Begun(k, d) /\ p \in d.created \cup d.deleted
        BY <3>0
      \* Who began has no handler: what lands is the rename at another.
      <3>2. k # m
        BY <1>3, <3>1 DEF Begun
      <3>3. f.type = "FILE_RENAME" /\ d = [created |-> {f.to}, deleted |-> {f.path}]
        BY <3>1 DEF Begun
      <3>4. Seen(m)' \subseteq {d} /\ (Seen(m)' # {} => \A q \in d.deleted : ~Has(m, q)')
        <4>1. d.deleted = {f.path}
          BY <3>3
        <4>2. Seen(m) \subseteq {d} /\ (Seen(m) # {} => ~Has(m, f.path))
          BY <3>1, <4>1 DEF Begun
        <4>3. CASE Seen(m)' = Seen(m)
          BY <1>7, <3>3, <4>1, <4>2, <4>3 DEF LandsWell
        <4>4. ASSUME NEW e, Seen(m)' = Seen(m) \cup {e}, Reports(m, f, e)
              PROVE  Seen(m)' \subseteq {d} /\ (Seen(m)' # {} => \A q \in d.deleted : ~Has(m, q)')
          BY <3>3, <4>1, <4>2, <4>4 DEF Reports
        <4> QED BY <1>7, <4>3, <4>4
      <3>5. \A n \in Member \ {m} : Seen(n)' \subseteq {d} /\ (Seen(n)' # {} => \A q \in d.deleted : ~Has(n, q)')
        BY <1>3, <1>7, <3>1 DEF Begun, LandsWell, Has
      <3>6. Seen(k)' = {d} /\ treeTasks'[k] = << >> /\ Arriving(k)' = {}
        BY <1>3, <3>1, <3>2 DEF Begun
      <3>7. \A n \in Member : Reading(n)' = {} /\ \A g \in Arriving(n)' :
                g.type = "FILE_RENAME" /\ d = [created |-> {g.to}, deleted |-> {g.path}]
        BY <1>3, <1>10, <3>1 DEF Begun
      <3>8. Begun(k, d)'
        BY <3>4, <3>5, <3>6, <3>7 DEF Begun
      <3> QED BY <3>1, <3>6, <3>8 DEF Begins
    <2>3. \A p \in Shared, k \in Member : (\E n \in Member : p \in Reading(n)) => Come(p, k)'
      BY <1>3 DEF Come
    <2>4. \A p \in Shared, k \in Member : Begins(p) => Gone(p, k)' /\ Come(p, k)'
      BY <2>2 DEF Gone, Come
    <2> QED BY <1>2, <1>6, <1>12, <2>1, <2>3, <2>4, CompleteStays
  <1>14. TreeAsked'
    <2>1. ASSUME NEW a \in Member, NEW p \in treeAsked[a], treeMeant[p] = "untouched", Calm(p),
                 \A n \in Member : Has(n, p) => AskedOf(p, a, n)
          PROVE  TreeAnswered(p, a)'
      <3>1. p \in Path
        BY <1>1 DEF TreeVarsOK, SyncOK, Shared
      <3>2. \A n \in Member : ~TreeWritten(p, n)'
        BY <1>10, <2>1 DEF Calm, TreeWritten
      <3>3. \A n \in Member : \A e \in Seen(n)' : p \notin e.created
        BY <1>3, <1>8, <2>1 DEF Calm, Reports
      <3>4. Calm(p)'
        BY <1>3, <2>1, <3>2, <3>3 DEF Calm
      <3>5. \A n \in Member : Has(n, p)' => Has(n, p)
        BY <1>7, <2>1, <3>1 DEF LandsWell, Calm, Has
      <3>6. \A n \in Member : AskedOf(p, a, n) => AskedOf(p, a, n)'
        BY <1>7, <1>10 DEF AskedOf, LandsWell
      <3> QED BY <2>1, <3>4, <3>5, <3>6 DEF TreeAnswered
    <2> QED BY <1>1, <1>2, <1>6, <1>12, <2>1, AskedStays
  <1>15. SameAsker'
    BY <1>10 DEF SameAsker
  <1>16. PullAlone'
    BY <1>2, <1>3 DEF PullAlone
  <1> QED BY <1>11, <1>13, <1>14, <1>15, <1>16

LEMMA EndsKeeps ==
    ASSUME TreeInv, OneTurn, NEW m \in Member, NEW i \in DOMAIN treeTasks[m], TaskEnds(m, i)
    PROVE  OneTurn'
  <1> USE DEF OneTurn
  <1>1. TreeVarsOK
    BY DEF TreeInv
  <1>2. /\ treeFiles' = treeFiles /\ treeMeant' = treeMeant /\ treeAsked' = treeAsked
        /\ treePulls' = treePulls
    BY DEF TaskEnds, treeSync, treeUsers
  <1>3. /\ \A n \in Member : Seen(n)' = Seen(n) /\ Reading(n)' = Reading(n) /\ Arriving(n)' = Arriving(n)
        /\ \A n \in Member \ {m} : treeTasks'[n] = treeTasks[n]
        /\ treeTasks[m] # << >>
    BY <1>1, EndsGives
  <1>4. FilesGoRight
    BY <1>2, SameFilesAreRight
  <1>5. Consistent'
    BY <1>1, <1>2, <1>3, <1>4, ConsistentStays
  <1>6. \A p : \A k \in Member : (TreeWritten(p, k)' <=> TreeWritten(p, k)) /\ (Deleted(p, k)' <=> Deleted(p, k))
    BY <1>3 DEF TreeWritten, Deleted
  <1>7. ASSUME NEW p, Begins(p) PROVE Begins(p)'
    <2>0. PICK k \in Member : \E d \in Seen(k) : Begun(k, d) /\ p \in d.created \cup d.deleted
      BY <1>7 DEF Begins
    <2>1. PICK d \in Seen(k) : Begun(k, d) /\ p \in d.created \cup d.deleted
      BY <2>0
    <2>2. k # m
      BY <1>3, <2>1 DEF Begun
    <2>3. Begun(k, d)'
      BY <1>2, <1>3, <2>1, <2>2 DEF Begun, Has
    <2> QED BY <1>3, <2>1, <2>3 DEF Begins
  <1>8. Complete'
    BY <1>2, <1>3, <1>4, <1>6, <1>7, CompleteStays DEF Gone, Come
  <1>9. TreeAsked'
    <2>1. \A p : Calm(p) => Calm(p)'
      BY <1>3 DEF Calm, TreeWritten
    <2>2. \A p : \A a, n \in Member : AskedOf(p, a, n) => AskedOf(p, a, n)'
      BY <1>3 DEF AskedOf
    <2>3. \A a \in Member : \A p \in treeAsked[a] : TreeWritten(p, a) => TreeWritten(p, a)'
      BY <1>6
    <2> QED BY <1>1, <1>2, <1>4, <2>1, <2>2, <2>3, AskedStays DEF TreeAnswered, Has
  <1>10. SameAsker'
    BY <1>3 DEF SameAsker
  <1>11. PullAlone'
    BY <1>2, <1>3 DEF PullAlone
  <1> QED BY <1>5, <1>8, <1>9, <1>10, <1>11

-----------------------------------------------------------------------------
(* A user's operation begins a turn, and so does the Sync button.          *)

\* Nothing is under way.
AllDone ==
    /\ \A m \in Member : Seen(m) = {} /\ Reading(m) = {} /\ Arriving(m) = {} /\ treeTasks[m] = << >>
    /\ treePulls = << >>

LEMMA QuietIsDone == ASSUME TreeQuiet PROVE AllDone
  <1>1. Holding(<< >>) = {} /\ Pending(<< >>) = {}
    BY DEF Holding, Pending
  <1> QED BY <1>1 DEF TreeQuiet, AllDone, Seen, Reading, Arriving

\* When all is done, what the users want is so.
LEMMA DoneIsRight ==
    ASSUME AllDone, Complete, NEW p \in Shared, NEW k \in Member
    PROVE  /\ treeMeant[p] = "none" => ~Has(k, p)
           /\ treeMeant[p] \notin {"none", "untouched"} => Right(p, treeFiles[k][p])
  <1>1. ~Begins(p) /\ ~TreeWritten(p, k) /\ ~Deleted(p, k) /\ \A n \in Member : p \notin Reading(n)
    BY DEF AllDone, Begins, TreeWritten, Deleted
  <1> QED BY <1>1 DEF Complete, Gone, Come

\* When all is done, nobody has what was asked for in vain.
LEMMA DoneIsAnswered ==
    ASSUME AllDone, TreeAsked, NEW m \in Member, NEW p \in treeAsked[m], treeMeant[p] = "untouched",
           NEW n \in Member, Has(n, p)
    PROVE  Has(m, p)
  <1>1. ~TreeWritten(p, m) /\ ~AskedOf(p, m, n)
    BY DEF AllDone, TreeWritten, AskedOf
  <1> QED BY <1>1 DEF TreeAsked, TreeAnswered

\* A user's operation on the paths of e, whose first news is e itself.
TouchesWith(m, e) ==
    /\ Seen(m)' = {e} /\ Arriving(m)' = {}
    /\ \A n \in Member \ {m} : Seen(n)' = {}
    /\ \A n \in Member : Reading(n)' = {} /\ treeTasks'[n] = << >>
    /\ treeAsked' = treeAsked /\ treePulls' = << >>
    /\ \A p \in Path \ (e.created \cup e.deleted) :
          treeMeant'[p] = treeMeant[p] /\ \A n \in Member : treeFiles'[n][p] = treeFiles[n][p]
    /\ \A p \in e.deleted : treeMeant'[p] = "none" /\ ~Has(m, p)'
    /\ \A p \in e.created : treeMeant'[p] \notin {"none", "untouched"} /\ Right(p, treeFiles[m][p])'
    /\ \A n \in Member : \A f \in Arriving(n)' :
          /\ f.type = "FILE_RENAME" /\ e = [created |-> {f.to}, deleted |-> {f.path}]
          /\ Has(n, f.path)' => Right(f.to, treeFiles[n][f.path])'

LEMMA TouchKeeps ==
    ASSUME TreeVarsOK, AllDone, OneTurn, NEW m \in Member, NEW e \in EventRecord, TouchesWith(m, e)
    PROVE  OneTurn'
  <1> USE DEF OneTurn
  <1>1. /\ Seen(m)' = {e} /\ Arriving(m)' = {}
        /\ \A n \in Member \ {m} : Seen(n)' = {}
        /\ \A n \in Member : Reading(n)' = {} /\ treeTasks'[n] = << >>
        /\ treeAsked' = treeAsked /\ treePulls' = << >>
    BY DEF TouchesWith
  <1>2. /\ \A p \in Path \ (e.created \cup e.deleted) :
              treeMeant'[p] = treeMeant[p] /\ \A n \in Member : treeFiles'[n][p] = treeFiles[n][p]
        /\ \A p \in e.deleted : treeMeant'[p] = "none" /\ ~Has(m, p)'
        /\ \A p \in e.created : treeMeant'[p] \notin {"none", "untouched"} /\ Right(p, treeFiles[m][p])'
    BY DEF TouchesWith
  <1>3. \A n \in Member : \A f \in Arriving(n)' :
              /\ f.type = "FILE_RENAME" /\ e = [created |-> {f.to}, deleted |-> {f.path}]
              /\ Has(n, f.path)' => Right(f.to, treeFiles[n][f.path])'
    BY DEF TouchesWith
  <1>4. \A n \in Member : \A f \in Arriving(n)' : f.to \in e.created /\ f.path \in e.deleted
    BY <1>3
  <1>5. Consistent'
    <2>1. ASSUME NEW n \in Member, NEW f \in Arriving(n)' PROVE GoodFrame(n, f)'
      BY <1>2, <1>3, <1>4, <2>1 DEF GoodFrame, Writes
    <2>2. GoodEvent(m, e)'
      BY <1>2 DEF GoodEvent
    <2>3. \A n \in Member : \A d \in Seen(n)' : GoodEvent(n, d)'
      BY <1>1, <2>2
    <2> QED BY <1>1, <2>1, <2>3 DEF Consistent
  <1>6. Begun(m, e)'
    <2>1. \A k \in Member : Seen(k)' # {} => k = m
      BY <1>1
    <2> QED BY <1>1, <1>2, <1>3, <2>1 DEF Begun
  <1>7. Complete'
    <2>1. ASSUME NEW p \in Shared, NEW k \in Member
          PROVE  /\ treeMeant'[p] = "none" => Gone(p, k)'
                 /\ treeMeant'[p] \notin {"none", "untouched"} => Come(p, k)'
      <3>1. CASE p \in e.created \cup e.deleted
        <4>1. Begins(p)'
          BY <1>1, <1>6, <3>1 DEF Begins
        <4> QED BY <4>1 DEF Gone, Come
      <3>2. CASE p \notin e.created \cup e.deleted
        <4>1. treeMeant'[p] = treeMeant[p] /\ treeFiles'[k][p] = treeFiles[k][p]
          BY <1>2, <3>2 DEF Shared
        <4>2. /\ treeMeant[p] = "none" => ~Has(k, p)
              /\ treeMeant[p] \notin {"none", "untouched"} => Right(p, treeFiles[k][p])
          BY DoneIsRight
        <4> QED BY <4>1, <4>2 DEF Gone, Come, Has, Right
      <3> QED BY <3>1, <3>2
    <2> QED BY <2>1 DEF Complete
  <1>8. TreeAsked'
    <2>1. ASSUME NEW a \in Member, NEW p \in treeAsked[a], treeMeant'[p] = "untouched" PROVE TreeAnswered(p, a)'
      <3>1. p \in Path /\ p \notin e.created /\ p \notin e.deleted
        BY <1>2, <2>1 DEF TreeVarsOK, SyncOK, Shared
      <3>2. treeMeant[p] = "untouched" /\ \A n \in Member : Has(n, p)' <=> Has(n, p)
        BY <1>2, <2>1, <3>1 DEF Has
      <3>3. \A n \in Member : ~TreeWritten(p, n)'
        BY <1>3 DEF TreeWritten, Writes
      <3>4. Calm(p)'
        BY <1>1, <3>1, <3>3 DEF Calm
      <3>5. (\E n \in Member : Has(n, p)) => Has(a, p)
        BY <3>2, DoneIsAnswered
      <3> QED BY <3>2, <3>4, <3>5 DEF TreeAnswered
    <2> QED BY <1>1, <2>1 DEF TreeAsked
  <1>9. SameAsker'
    BY <1>3 DEF SameAsker
  <1>10. PullAlone'
    BY <1>1 DEF PullAlone
  <1> QED BY <1>5, <1>7, <1>8, <1>9, <1>10

LEMMA CreateKeeps ==
    ASSUME TreeVarsOK, AllDone, OneTurn, NEW m \in Member, NEW p \in Path, NEW c \in FileContent,
           UserCreates(m, p, c)
    PROVE  OneTurn'
  <1> DEFINE e == [created |-> {p}, deleted |-> {}]
  <1>0. e \in EventRecord /\ e.created = {p} /\ e.deleted = {}
    BY DEF EventRecord
  <1>1. /\ \A n \in Member : Reading(n)' = {} /\ Arriving(n)' = {}
        /\ \A n \in Member \ {m} : Seen(n)' = {}
        /\ Seen(m)' = {e}
    <2>1. /\ \A n \in Member : Reading(n)' = Reading(n) /\ Arriving(n)' = Arriving(n)
          /\ \A n \in Member \ {m} : Seen(n)' = Seen(n)
          /\ Seen(m)' = Seen(m) \cup {e}
      BY CreateGives
    <2> QED BY <2>1 DEF AllDone
  <1> HIDE DEF e
  <1>2. /\ treeMeant' = [treeMeant EXCEPT ![p] = c] /\ treeFiles' = [treeFiles EXCEPT ![m][p] = c]
        /\ treeTasks' = treeTasks /\ treeAsked' = treeAsked /\ treePulls' = treePulls
    BY DEF UserCreates, Touch, treeSync
  <1>3. /\ \A q \in Path \ {p} : treeMeant'[q] = treeMeant[q] /\ \A n \in Member : treeFiles'[n][q] = treeFiles[n][q]
        /\ treeMeant'[p] = c /\ treeFiles'[m][p] = c
    BY <1>2 DEF TreeVarsOK, FilesOK
  <1>4. treeMeant'[p] \notin {"none", "untouched"} /\ Right(p, treeFiles[m][p])'
    BY <1>3, NoneIsNoContent DEF Right
  <1>5. TouchesWith(m, e)
    BY <1>0, <1>1, <1>2, <1>3, <1>4 DEF TouchesWith, AllDone
  <1> QED BY <1>0, <1>5, TouchKeeps

LEMMA DeleteKeeps ==
    ASSUME TreeVarsOK, AllDone, OneTurn, NEW m \in Member, NEW p \in Path, UserDeletes(m, p)
    PROVE  OneTurn'
  <1> DEFINE e == [created |-> {}, deleted |-> {p}]
  <1>0. e \in EventRecord /\ e.created = {} /\ e.deleted = {p}
    BY DEF EventRecord
  <1>1. /\ \A n \in Member : Reading(n)' = {} /\ Arriving(n)' = {}
        /\ \A n \in Member \ {m} : Seen(n)' = {}
        /\ Seen(m)' = {e}
    <2>1. /\ \A n \in Member : Reading(n)' = Reading(n) /\ Arriving(n)' = Arriving(n)
          /\ \A n \in Member \ {m} : Seen(n)' = Seen(n)
          /\ Seen(m)' = Seen(m) \cup {e}
      BY DeleteGives
    <2> QED BY <2>1 DEF AllDone
  <1> HIDE DEF e
  <1>2. /\ treeMeant' = [treeMeant EXCEPT ![p] = "none"] /\ treeFiles' = [treeFiles EXCEPT ![m][p] = "none"]
        /\ treeTasks' = treeTasks /\ treeAsked' = treeAsked /\ treePulls' = treePulls
    BY DEF UserDeletes, Touch, treeSync
  <1>3. /\ \A q \in Path \ {p} : treeMeant'[q] = treeMeant[q] /\ \A n \in Member : treeFiles'[n][q] = treeFiles[n][q]
        /\ treeMeant'[p] = "none" /\ ~Has(m, p)'
    BY <1>2 DEF TreeVarsOK, FilesOK, Has
  <1>5. TouchesWith(m, e)
    BY <1>0, <1>1, <1>2, <1>3 DEF TouchesWith, AllDone
  <1> QED BY <1>0, <1>5, TouchKeeps

LEMMA RenameKeeps ==
    ASSUME TreeVarsOK, AllDone, OneTurn, NEW m \in Member, NEW old \in Path, NEW new \in Path,
           UserRenames(m, old, new)
    PROVE  OneTurn'
  <1> DEFINE e == [created |-> {new}, deleted |-> {old}]
             f == RenameSent(old, new)
  <1>0. e \in EventRecord /\ e.created = {new} /\ e.deleted = {old} /\ e = [created |-> {new}, deleted |-> {old}]
    BY DEF EventRecord
  <1>a. f.type = "FILE_RENAME" /\ f.path = old /\ f.to = new
    BY Zenon DEF FileFrame, RenameSent
  <1>1. /\ \A n \in Member : Reading(n)' = {}
        /\ Arriving(m)' = {}
        /\ \A n \in Member \ {m} : Seen(n)' = {} /\ Arriving(n)' = {f}
        /\ Seen(m)' = {e}
    <2>1. (\A n \in Member : Reading(n)' = Reading(n)) /\ Arriving(m)' = Arriving(m)
      BY RenameGives
    <2>2. \A n \in Member \ {m} : Seen(n)' = Seen(n) /\ Arriving(n)' = Arriving(n) \cup {f}
      BY RenameGives
    <2>3. Seen(m)' = Seen(m) \cup {e}
      BY RenameGives
    <2> HIDE DEF e, f
    <2> QED BY <2>1, <2>2, <2>3 DEF AllDone
  <1> HIDE DEF e, f
  <1>2. /\ treeMeant' = [treeMeant EXCEPT ![old] = "none",
                             ![new] = IF Alike(m, old) THEN treeFiles[m][old] ELSE "unclear"]
        /\ treeFiles' = [treeFiles EXCEPT ![m][old] = "none", ![m][new] = treeFiles[m][old]]
        /\ treeTasks' = treeTasks /\ treeAsked' = treeAsked /\ treePulls' = treePulls
        /\ Has(m, old) /\ ~Has(m, new)
    <2>1. UserRenames(m, old, new) /\ UNCHANGED treeSync
      BY DEF UserRenames, Touch
    <2> QED BY <2>1, Zenon DEF UserRenames, Touch, treeSync
  <1>3. old # new
    BY <1>2
  <1>4. /\ \A q \in Path \ {old, new} : treeMeant'[q] = treeMeant[q] /\ \A n \in Member : treeFiles'[n][q] = treeFiles[n][q]
        /\ treeMeant'[old] = "none"
        /\ treeMeant'[new] = (IF Alike(m, old) THEN treeFiles[m][old] ELSE "unclear")
        /\ treeFiles'[m][old] = "none" /\ treeFiles'[m][new] = treeFiles[m][old]
        /\ \A n \in Member \ {m} : treeFiles'[n] = treeFiles[n]
    BY <1>2, <1>3 DEF TreeVarsOK, FilesOK
  <1>5. \A n \in Member : Has(n, old) => treeFiles[n][old] \in FileContent
    BY DEF TreeVarsOK, FilesOK, Has
  <1>6. treeMeant'[new] \notin {"none", "untouched"} /\ Right(new, treeFiles[m][new])'
    <2>1. treeFiles[m][old] \in FileContent
      BY <1>2, <1>5
    <2>2. treeMeant'[new] \in {treeFiles'[m][new], "unclear"} /\ treeFiles'[m][new] \in FileContent
      BY <1>4, <2>1
    <2> QED BY <2>2, NoneIsNoContent DEF Right
  \* What another renames is alike, or what it becomes is unclear.
  <1>7. \A n \in Member \ {m} : Has(n, old)' => Right(new, treeFiles[n][old])'
    <2>1. ASSUME NEW n \in Member \ {m}, Has(n, old)' PROVE Right(new, treeFiles[n][old])'
      <3>1. Has(n, old) /\ treeFiles'[n][old] = treeFiles[n][old]
        BY <1>4, <2>1 DEF Has
      <3>2. Alike(m, old) => treeFiles[n][old] = treeFiles[m][old]
        BY <3>1 DEF Alike, Has
      <3> QED BY <1>4, <1>5, <3>1, <3>2 DEF Right
    <2> QED BY <2>1
  <1>8. TouchesWith(m, e)
    <2>1. ~Has(m, old)'
      BY <1>4 DEF Has
    <2>2. \A n \in Member : \A g \in Arriving(n)' :
              /\ g.type = "FILE_RENAME" /\ e = [created |-> {g.to}, deleted |-> {g.path}]
              /\ Has(n, g.path)' => Right(g.to, treeFiles[n][g.path])'
      BY <1>0, <1>a, <1>1, <1>7
    <2> QED BY <1>0, <1>1, <1>2, <1>4, <1>6, <2>1, <2>2 DEF TouchesWith, AllDone
  <1> QED BY <1>0, <1>8, TouchKeeps

LEMMA StartPullKeeps ==
    ASSUME TreeVarsOK, AllDone, OneTurn, NEW m \in Member, StartPull(m)
    PROVE  OneTurn'
  <1> USE DEF OneTurn
  <1>1. /\ treeFiles' = treeFiles /\ treeMeant' = treeMeant /\ treeAsked' = treeAsked
        /\ treeTasks' = treeTasks
    BY DEF StartPull
  <1>2. /\ \A n \in Member : Reading(n)' = {} /\ Seen(n)' = {} /\ treeTasks'[n] = << >>
        /\ \A n \in Member : \A f \in Arriving(n)' : f.type = "ARCH_SHARE"
    <2>1. PICK f \in ShareFrame : \A n \in Member \ {m} : Arriving(n)' = Arriving(n) \cup {f}
      BY StartPullGives
    <2>2. Arriving(m)' = Arriving(m) /\ \A n \in Member : Reading(n)' = Reading(n) /\ Seen(n)' = Seen(n)
      BY StartPullGives
    <2>3. f.type = "ARCH_SHARE"
      BY <2>1 DEF ShareFrame
    <2> QED BY <1>1, <2>1, <2>2, <2>3 DEF AllDone
  <1>3. Consistent'
    BY <1>2 DEF Consistent, GoodFrame, Writes
  <1>4. Complete'
    BY <1>1, DoneIsRight DEF Complete, Gone, Come, Has, Right
  <1>5. TreeAsked'
    <2>1. ASSUME NEW a \in Member, NEW p \in treeAsked[a], treeMeant[p] = "untouched" PROVE TreeAnswered(p, a)'
      <3>1. \A n \in Member : ~TreeWritten(p, n)'
        BY <1>2 DEF TreeWritten, Writes
      <3>2. Calm(p)'
        BY <1>2, <3>1 DEF Calm
      <3>3. (\E n \in Member : Has(n, p)) => Has(a, p)
        BY <2>1, DoneIsAnswered
      <3> QED BY <1>1, <3>2, <3>3 DEF TreeAnswered, Has
    <2> QED BY <1>1, <2>1 DEF TreeAsked
  <1>6. SameAsker'
    BY <1>2 DEF SameAsker
  <1>7. PullAlone'
    BY <1>2 DEF PullAlone
  <1> QED BY <1>3, <1>4, <1>5, <1>6, <1>7

LEMMA EndPullKeeps ==
    ASSUME TreeVarsOK, OneTurn, EndPull
    PROVE  OneTurn'
  <1> USE DEF OneTurn
  <1>1. /\ treeFiles' = treeFiles /\ treeMeant' = treeMeant /\ treeTasks' = treeTasks
        /\ treePulls # << >> /\ treePulls' = << >>
    BY DEF EndPull, treeUsers
  <1>2. \A n \in Member : /\ Seen(n) = {} /\ Reading(n) = {}
                          /\ \A f \in Arriving(n) : f.type = "ARCH_SHARE"
    BY <1>1 DEF PullAlone
  <1>3. PICK m \in Member : \E missing \in SUBSET Shared :
            /\ Arriving(m)' = Arriving(m)
            /\ \A n \in Member \ {m} : Arriving(n)' = Arriving(n) \cup Requested(m, missing)
            /\ treeAsked' = [treeAsked EXCEPT ![m] = @ \cup missing]
    BY EndPullGives
  <1>4. PICK missing \in SUBSET Shared :
            /\ Arriving(m)' = Arriving(m)
            /\ \A n \in Member \ {m} : Arriving(n)' = Arriving(n) \cup Requested(m, missing)
            /\ treeAsked' = [treeAsked EXCEPT ![m] = @ \cup missing]
    BY <1>3
  <1>5. \A n \in Member : Reading(n)' = {} /\ Seen(n)' = {}
    BY <1>2, EndPullGives
  <1>6. /\ \A f \in Requested(m, missing) : f.type = "FILE_REQUEST" /\ f.path \in missing /\ f.to = m
        /\ \A p \in missing : \E f \in Requested(m, missing) : f.type = "FILE_REQUEST" /\ f.path = p /\ f.to = m
    <2>1. \A p : LET f == FileFrame("FILE_REQUEST", p, m, "")
                 IN f.type = "FILE_REQUEST" /\ f.path = p /\ f.to = m
      BY Zenon DEF FileFrame
    <2> QED BY <2>1, Zenon DEF Requested
  <1>7. \A n \in Member : \A f \in Arriving(n)' :
            f.type = "ARCH_SHARE" \/ (f.type = "FILE_REQUEST" /\ f.path \in missing /\ f.to = m)
    <2>1. \A n \in Member : \A f \in Arriving(n)' : f \in Arriving(n) \/ f \in Requested(m, missing)
      BY <1>4
    <2> QED BY <1>2, <1>6, <2>1
  <1>8. ASSUME NEW p \in Shared, NEW k \in Member
        PROVE  /\ treeMeant[p] = "none" => ~Has(k, p)
               /\ treeMeant[p] \notin {"none", "untouched"} => Right(p, treeFiles[k][p])
    <2>1. /\ ~Begins(p) /\ ~TreeWritten(p, k) /\ ~Deleted(p, k)
          /\ \A n \in Member : p \notin Reading(n)
      BY <1>2 DEF Begins, TreeWritten, Deleted, Writes
    <2> QED BY <2>1 DEF Complete, Gone, Come
  <1>9. Consistent'
    \* What is requested is what the users want, wherever it is.
    <2>1. ASSUME NEW k \in Member, NEW p \in Shared, Has(k, p) PROVE Right(p, treeFiles[k][p])
      <3>1. treeFiles[k][p] \in FileContent
        BY <2>1 DEF TreeVarsOK, FilesOK, Has, Shared
      <3> QED BY <1>8, <2>1, <3>1 DEF Right
    <2>2. \A n \in Member : \A f \in Arriving(n)' : GoodFrame(n, f)'
      BY <1>1, <1>7, <2>1 DEF GoodFrame, Writes, Right, Has
    <2> QED BY <1>5, <2>2 DEF Consistent
  <1>10. Complete'
    BY <1>1, <1>8 DEF Complete, Gone, Come, Has, Right
  <1>11. \A p : Calm(p)'
    <2>1. \A p : \A n \in Member : ~TreeWritten(p, n)'
      BY <1>7 DEF TreeWritten, Writes
    <2> QED BY <1>5, <2>1 DEF Calm
  <1>12. TreeAsked'
    <2>1. ASSUME NEW p \in missing PROVE TreeAnswered(p, m)'
      <3>1. \A n \in Member \ {m} : AskedOf(p, m, n)'
        BY <1>4, <1>6 DEF AskedOf
      <3> QED BY <1>11, <3>1 DEF TreeAnswered
    <2>2. ASSUME NEW a \in Member, NEW p \in treeAsked[a], treeMeant[p] = "untouched" PROVE TreeAnswered(p, a)'
      <3>1. ~TreeWritten(p, a) /\ \A n \in Member : ~AskedOf(p, a, n)
        BY <1>2 DEF TreeWritten, Writes, AskedOf
      <3>2. Has(a, p) \/ \A n \in Member : ~Has(n, p)
        BY <2>2, <3>1 DEF TreeAsked, TreeAnswered
      <3> QED BY <1>1, <1>11, <3>2 DEF TreeAnswered, Has
    <2>3. \A a \in Member : \A p \in treeAsked'[a] : p \in treeAsked[a] \/ (a = m /\ p \in missing)
      BY <1>4 DEF TreeVarsOK, SyncOK
    <2> QED BY <1>1, <2>1, <2>2, <2>3 DEF TreeAsked
  <1>13. SameAsker'
    BY <1>7 DEF SameAsker
  <1>14. PullAlone'
    BY <1>1 DEF PullAlone
  <1> QED BY <1>9, <1>10, <1>12, <1>13, <1>14

LEMMA NothingKeeps ==
    ASSUME UNCHANGED treeVars
    PROVE  /\ TreeVarsOK => TreeVarsOK'
           /\ FlagIsOurs => FlagIsOurs'
           /\ OneTurn => OneTurn'
  <1>1. /\ treeFiles' = treeFiles /\ treeMeant' = treeMeant /\ treeAsked' = treeAsked
        /\ treePulls' = treePulls /\ treeTasks' = treeTasks /\ treeApplying' = treeApplying
        /\ treeInbox' = treeInbox /\ treeEvents' = treeEvents /\ treeReads' = treeReads
        /\ treeManifests' = treeManifests
    BY DEF treeVars, treeQueues, treeSync, treeUsers
  <1>2. (TreeVarsOK => TreeVarsOK') /\ (FlagIsOurs => FlagIsOurs')
    BY <1>1 DEF TreeVarsOK, QueuesOK, FilesOK, SyncOK, FlagIsOurs
  <1>3. \A n : Seen(n)' = Seen(n) /\ Reading(n)' = Reading(n) /\ Arriving(n)' = Arriving(n)
    BY <1>1 DEF Seen, Reading, Arriving
  <1>4. /\ \A n, f : GoodFrame(n, f)' <=> GoodFrame(n, f)
        /\ \A n, e : GoodEvent(n, e)' <=> GoodEvent(n, e)
        /\ \A n, p : GoodRead(n, p)' <=> GoodRead(n, p)
    BY <1>1 DEF GoodFrame, GoodEvent, GoodRead, Has, Right
  <1>5. Consistent => Consistent'
    BY <1>3, <1>4 DEF Consistent
  <1>6. /\ \A p, k : TreeWritten(p, k)' <=> TreeWritten(p, k)
        /\ \A p, k : Deleted(p, k)' <=> Deleted(p, k)
        /\ \A p, a, n : AskedOf(p, a, n)' <=> AskedOf(p, a, n)
    BY <1>3 DEF TreeWritten, Deleted, AskedOf
  <1>7. \A n, e : Begun(n, e)' <=> Begun(n, e)
    BY <1>1, <1>3 DEF Begun, Has
  <1>8. \A p : (Begins(p)' <=> Begins(p)) /\ (Calm(p)' <=> Calm(p))
    BY <1>3, <1>6, <1>7 DEF Begins, Calm
  <1>9. Complete => Complete'
    BY <1>1, <1>3, <1>6, <1>8 DEF Complete, Gone, Come, Has, Right
  <1>10. TreeAsked => TreeAsked'
    BY <1>1, <1>6, <1>8 DEF TreeAsked, TreeAnswered, Has
  <1>11. (SameAsker => SameAsker') /\ (PullAlone => PullAlone')
    BY <1>1, <1>3 DEF SameAsker, PullAlone
  <1> QED BY <1>2, <1>5, <1>9, <1>10, <1>11 DEF OneTurn

-----------------------------------------------------------------------------
(* The theorem.                                                            *)

LEMMA TreeInvInit == TreeInit => TreeInv
  <1> SUFFICES ASSUME TreeInit PROVE TreeInv
    OBVIOUS
  <1>1. TreeVarsOK
    BY TreeVarsInit
  <1>2. FlagIsOurs
    BY DEF TreeInit, FlagIsOurs
  <1>3. AllDone
    <2>1. TreeQuiet
      BY DEF TreeInit, TreeQuiet
    <2> QED BY <2>1, QuietIsDone
  <1>4. Consistent /\ SameAsker /\ PullAlone
    BY <1>3 DEF AllDone, Consistent, SameAsker, PullAlone
  <1>5. Complete
    BY DEF TreeInit, Complete, Shared
  <1>6. TreeAsked
    BY DEF TreeInit, TreeAsked
  <1> QED BY <1>1, <1>2, <1>4, <1>5, <1>6 DEF TreeInv, OneTurn

LEMMA TreeInvNext == TreeInv /\ [TreeNext]_treeVars => TreeInv'
  <1> SUFFICES ASSUME TreeInv, [TreeNext]_treeVars PROVE TreeInv'
    OBVIOUS
  <1>0. TreeVarsOK /\ FlagIsOurs /\ (TakeTurns => OneTurn)
    BY DEF TreeInv
  <1>1. TreeVarsOK'
    BY <1>0, TreeVarsNext
  <1> SUFFICES FlagIsOurs' /\ (TakeTurns => OneTurn')
    BY <1>1 DEF TreeInv
  <1>2. ASSUME NEW m \in Member, TreeTask(m) PROVE FlagIsOurs' /\ (TakeTurns => OneTurn')
    <2>1. CASE DeliverEvent(m)
      <3>1. FlagIsOurs'
        BY <1>0, <2>1 DEF DeliverEvent, FlagIsOurs
      <3> QED BY <1>0, <2>1, <3>1, DeliverKeeps
    <2>2. ASSUME NEW i \in DOMAIN treeReads[m], FileRead(m, i) PROVE FlagIsOurs' /\ (TakeTurns => OneTurn')
      <3>1. FlagIsOurs'
        BY <1>0, <2>2 DEF FileRead, FlagIsOurs
      <3> QED BY <1>0, <2>2, <3>1, ReadKeeps
    <2>3. CASE ReceiveFrame(m)
      <3>1. FlagIsOurs'
        BY <1>0, <2>3, ReceiveGives DEF FlagIsOurs
      <3> QED BY <1>0, <2>3, <3>1, ReceiveKeeps
    <2>4. ASSUME NEW i \in DOMAIN treeTasks[m], TaskLands(m, i) PROVE FlagIsOurs' /\ (TakeTurns => OneTurn')
      <3>1. FlagIsOurs'
        BY <1>0, <2>4, LandsGives DEF FlagIsOurs
      <3> QED BY <1>0, <2>4, <3>1, LandsKeeps
    <2>5. ASSUME NEW i \in DOMAIN treeTasks[m], TaskEnds(m, i) PROVE FlagIsOurs' /\ (TakeTurns => OneTurn')
      <3>1. FlagIsOurs'
        BY <1>0, <2>5, EndsGives DEF FlagIsOurs
      <3> QED BY <1>0, <2>5, <3>1, EndsKeeps
    <2> QED BY <1>2, <2>1, <2>2, <2>3, <2>4, <2>5 DEF TreeTask
  \* Who takes turns begins when all is done.
  <1>3. (TakeTurns => TreeQuiet) => (TakeTurns => AllDone)
    BY QuietIsDone
  <1>4. ASSUME NEW m \in Member, NEW p \in Path, NEW c \in FileContent, UserCreates(m, p, c)
        PROVE  FlagIsOurs' /\ (TakeTurns => OneTurn')
    <2>1. FlagIsOurs' /\ (TakeTurns => AllDone)
      BY <1>0, <1>3, <1>4 DEF UserCreates, Touch, FlagIsOurs
    <2> QED BY <1>0, <1>4, <2>1, CreateKeeps
  <1>5. ASSUME NEW m \in Member, NEW p \in Path, UserDeletes(m, p)
        PROVE  FlagIsOurs' /\ (TakeTurns => OneTurn')
    <2>1. FlagIsOurs' /\ (TakeTurns => AllDone)
      BY <1>0, <1>3, <1>5 DEF UserDeletes, Touch, FlagIsOurs
    <2> QED BY <1>0, <1>5, <2>1, DeleteKeeps
  <1>6. ASSUME NEW m \in Member, NEW p \in Path, NEW q \in Path, UserRenames(m, p, q)
        PROVE  FlagIsOurs' /\ (TakeTurns => OneTurn')
    <2>1. treeTasks' = treeTasks /\ treeApplying' = treeApplying /\ (TakeTurns => TreeQuiet)
      BY <1>6, Zenon DEF UserRenames, Touch
    <2>2. FlagIsOurs' /\ (TakeTurns => AllDone)
      BY <1>0, <1>3, <2>1 DEF FlagIsOurs
    <2> QED BY <1>0, <1>6, <2>2, RenameKeeps
  <1>7. ASSUME NEW m \in Member, StartPull(m) PROVE FlagIsOurs' /\ (TakeTurns => OneTurn')
    <2>1. treeTasks' = treeTasks /\ treeApplying' = treeApplying /\ (TakeTurns => TreeQuiet)
      BY <1>7, Zenon DEF StartPull
    <2>2. FlagIsOurs' /\ (TakeTurns => AllDone)
      BY <1>0, <1>3, <2>1 DEF FlagIsOurs
    <2> QED BY <1>0, <1>7, <2>2, StartPullKeeps
  <1>8. CASE EndPull
    <2>1. FlagIsOurs'
      BY <1>0, <1>8 DEF EndPull, FlagIsOurs
    <2> QED BY <1>0, <1>8, <2>1, EndPullKeeps
  <1>9. CASE UNCHANGED treeVars
    BY <1>0, <1>9, NothingKeeps
  <1> QED BY <1>2, <1>4, <1>5, <1>6, <1>7, <1>8, <1>9 DEF TreeNext

LEMMA TreeInvShows == TreeInv => TurnTakersHaveTheSame /\ PulledFilesArrive
  <1> USE NoneIsNoContent
  <1> SUFFICES ASSUME TreeVarsOK, OneTurn, TakeTurns, TreeQuiet PROVE TurnTakersHaveTheSame /\ PulledFilesArrive
    BY DEF TreeInv, TurnTakersHaveTheSame, PulledFilesArrive
  <1>1. AllDone /\ Complete /\ TreeAsked
    BY QuietIsDone DEF OneTurn
  <1>2. \A p \in Shared, k \in Member :
            /\ treeMeant[p] = "none" => ~Has(k, p)
            /\ treeMeant[p] \notin {"none", "untouched"} => Right(p, treeFiles[k][p])
    BY <1>1, DoneIsRight
  <1>3. TurnTakersHaveTheSame
    BY <1>2 DEF TurnTakersHaveTheSame, Shared, Has, Right
  <1>4. ASSUME NEW m \in Member, NEW p \in treeAsked[m], NEW n \in Member, Has(n, p) PROVE Has(m, p)
    <2>1. p \in Shared
      BY DEF TreeVarsOK, SyncOK
    <2>2. CASE treeMeant[p] = "untouched"
      BY <1>1, <1>4, <2>2, DoneIsAnswered
    <2>3. CASE treeMeant[p] # "untouched"
      BY <1>2, <1>4, <2>1, <2>3 DEF Has, Right
    <2> QED BY <2>2, <2>3
  <1> QED BY <1>3, <1>4 DEF PulledFilesArrive

\* People who take turns have the same files whenever all is quiet, the ones
\* they pulled included, however many they are and whatever they create, delete
\* and rename: the echoes their watchers send one another, and handlers that
\* overtake each other, change nothing (fileWatcher.ts:19-52,
\* fileSyncService.ts:156-205, socketManager.ts:561).
THEOREM TurnTakersKeepTheSame == TreeSpec => [](TurnTakersHaveTheSame /\ PulledFilesArrive)
  <1>1. TreeSpec => []TreeInv
    BY TreeInvInit, TreeInvNext, PTL DEF TreeSpec
  <1> QED BY <1>1, TreeInvShows, PTL

=============================================================================
