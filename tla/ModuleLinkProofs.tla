-------------------------- MODULE ModuleLinkProofs --------------------------
(***************************************************************************)
(* What holds of ModuleLink for any number of modules, any messages, masks *)
(* and commands: the stream to each module is intact and each record is    *)
(* freed once, whatever the activations do; then what depends on how they  *)
(* nest.                                                                   *)
(***************************************************************************)
EXTENDS ModuleLink, FiniteSetTheorems, ListLemmas

(* The activations that write to or wait for a module name one. *)
FrameOK(f) == f.kind \in {"sync", "flush"} => f.mod \in Modules

StackOK(fr) == /\ fr \in Seq(Frames) /\ fr # <<>>
               /\ fr[1].kind = "loop"
               /\ \A d \in DOMAIN fr : FrameOK(fr[d])

RecordTypes == /\ list \subseteq Modules /\ freed \subseteq Modules
               /\ row \in Seq(Modules) /\ started \in 0 .. MaxModules
StreamTypes == /\ queue \in [Modules -> Seq(Nat)] /\ done \in [Modules -> 0 .. Size - 1]
               /\ pipe \in [Modules -> Seq(Nat)] /\ got \in [Modules -> Nat]
               /\ log \in [Modules -> Seq(Kinds)]
OtherTypes == /\ inbox \in [Modules -> Seq(Input)] /\ running \in [Modules -> BOOLEAN]
              /\ cqueue \in Seq(Entry) /\ grabs \in Nat
              /\ budget \in [sends : Nat, events : Nat]

IInv == /\ RecordTypes /\ FreedOnce
        /\ StreamTypes /\ StreamIntact
        /\ OtherTypes
        /\ StackOK(frames)

LEMMA Numbers ==
    /\ MaxModules \in Nat \ {0} /\ Size \in Nat \ {0} /\ InitModules \in 0 .. MaxModules
    /\ Reply \in Kinds /\ Inputs \subseteq Seq(Ops) /\ EventInputs \subseteq Seq(Ops)
    /\ Modules = 1 .. MaxModules /\ MaxSends \in Nat /\ MaxEvents \in Nat
BY LinkAssumption DEF LinkAssumption, Modules

-----------------------------------------------------------------------------
(* The stack *)

LEMMA PushOK ==
    ASSUME NEW fr, StackOK(fr), NEW f \in Frames, FrameOK(f)
    PROVE  StackOK(Append(fr, f))
<1> DEFINE g == Append(fr, f)
<1>1. fr \in Seq(Frames) /\ Len(fr) \in Nat /\ DOMAIN fr = 1 .. Len(fr) /\ Len(fr) > 0
  BY DEF StackOK
<1>2. /\ g \in Seq(Frames) /\ g # <<>> /\ DOMAIN g = 1 .. Len(fr) + 1
      /\ g[Len(fr) + 1] = f
      /\ \A d \in 1 .. Len(fr) : g[d] = fr[d]
  BY <1>1, AppendFacts
<1> HIDE DEF g
<1>3. \A d \in DOMAIN g : g[d] = f \/ (d \in DOMAIN fr /\ g[d] = fr[d])
  BY <1>1, <1>2
<1>4. \A d \in DOMAIN g : FrameOK(g[d])
  BY <1>3, Zenon DEF StackOK
<1>5. g[1] = fr[1]
  BY <1>1, <1>2
<1>6. StackOK(g)
  BY <1>2, <1>4, <1>5, Zenon DEF StackOK
<1> QED BY <1>6 DEF g

LEMMA BecomeOK ==
    ASSUME NEW fr, StackOK(fr), NEW f \in Frames,
           f.kind = fr[Len(fr)].kind, f.mod = fr[Len(fr)].mod
    PROVE  StackOK([fr EXCEPT ![Len(fr)] = f])
<1> DEFINE g == [fr EXCEPT ![Len(fr)] = f]
<1>1. fr \in Seq(Frames) /\ Len(fr) \in Nat /\ DOMAIN fr = 1 .. Len(fr) /\ Len(fr) > 0
      /\ fr # <<>>
  BY DEF StackOK
<1>2. /\ g \in Seq(Frames) /\ Len(g) = Len(fr) /\ DOMAIN g = 1 .. Len(fr)
      /\ g[Len(fr)] = f
      /\ \A d \in 1 .. Len(fr) - 1 : g[d] = fr[d]
  BY <1>1, LastFacts
<1> HIDE DEF g
<1>3. FrameOK(f)
  <2>1. FrameOK(fr[Len(fr)])
    BY <1>1 DEF StackOK
  <2> QED BY <2>1 DEF FrameOK
<1>4. \A d \in DOMAIN g : g[d] = f \/ (d \in DOMAIN fr /\ g[d] = fr[d])
  BY <1>1, <1>2
<1>5. \A d \in DOMAIN g : FrameOK(g[d])
  BY <1>3, <1>4, Zenon DEF StackOK
<1>6. g[1].kind = "loop" /\ g # <<>>
  <2>1. CASE Len(fr) = 1
    BY <2>1, <1>1, <1>2 DEF StackOK
  <2>2. CASE Len(fr) > 1
    BY <2>2, <1>1, <1>2 DEF StackOK
  <2> QED BY <2>1, <2>2, <1>1
<1>7. StackOK(g)
  BY <1>2, <1>5, <1>6, Zenon DEF StackOK
<1> QED BY <1>7 DEF g

LEMMA PopOK ==
    ASSUME NEW fr, StackOK(fr), Len(fr) > 1
    PROVE  StackOK(SubSeq(fr, 1, Len(fr) - 1))
<1> DEFINE g == SubSeq(fr, 1, Len(fr) - 1)
<1>1. fr \in Seq(Frames) /\ Len(fr) \in Nat /\ DOMAIN fr = 1 .. Len(fr) /\ fr # <<>>
  BY DEF StackOK
<1>2. /\ g \in Seq(Frames) /\ Len(g) = Len(fr) - 1 /\ DOMAIN g = 1 .. Len(fr) - 1
      /\ \A d \in 1 .. Len(fr) - 1 : g[d] = fr[d]
  BY <1>1, FrontFacts
<1> HIDE DEF g
<1>3. 1 \in 1 .. Len(fr) - 1 /\ g # <<>>
  BY <1>1, <1>2
<1>4. \A d \in DOMAIN g : d \in DOMAIN fr /\ g[d] = fr[d]
  BY <1>1, <1>2
<1>5. \A d \in DOMAIN g : FrameOK(g[d])
  BY <1>4, Zenon DEF StackOK
<1>6. StackOK(g)
  BY <1>2, <1>3, <1>4, <1>5, Zenon DEF StackOK
<1> QED BY <1>6 DEF g

LEMMA TopFacts ==
    ASSUME StackOK(frames)
    PROVE  /\ Top \in Frames /\ Depth \in Nat /\ Depth > 0
           /\ FrameOK(Top)
           /\ ~At("loop") => Depth > 1
<1>1. Depth \in DOMAIN frames /\ Depth \in Nat /\ Depth > 0 /\ Top \in Frames
  BY DEF StackOK, Depth, Top
<1>2. FrameOK(Top)
  BY <1>1, Zenon DEF StackOK, Top
<1>3. ~At("loop") => Depth > 1
  BY <1>1 DEF StackOK, At, Top
<1> QED BY <1>1, <1>2, <1>3

(* The frames that are made are frames. *)
LEMMA NewFrames ==
    ASSUME NEW m \in 0 .. MaxModules, NEW no \in Nat, NEW cmd \in Seq(Ops)
    PROVE  /\ LoopFrame \in Frames /\ LoopFrame.kind = "loop" /\ LoopFrame.mod = 0
           /\ CmdFrame(m, cmd) \in Frames /\ CmdFrame(m, cmd).kind = "cmd"
           /\ FlushFrame(m) \in Frames /\ FlushFrame(m).mod = m
           /\ SyncFrame(m, no) \in Frames /\ SyncFrame(m, no).mod = m
<1>1. <<>> \in Seq(Ops)
  OBVIOUS
<1>2. Frame("loop", 0) \in Frames /\ Frame("cmd", m) \in Frames /\ Frame("flush", m) \in Frames
      /\ Frame("sync", m) \in Frames
  BY <1>1, Numbers DEF Frame, Frames
<1> QED BY <1>2, Numbers, ZenonT(60) DEF Frame, Frames, LoopFrame, CmdFrame, FlushFrame, SyncFrame

-----------------------------------------------------------------------------
(* The module list *)

(* The iterator stands on the list or at its end. *)
LEMMA NextOfType ==
    ASSUME RecordTypes, NEW m
    PROVE  NextOf(m) \in list \cup {0}
<1> DEFINE below == {x \in list : x < m}
<1>1. CASE below = {}
  BY <1>1 DEF NextOf
<1>2. CASE below # {}
  <2>1. below \subseteq 0 .. MaxModules /\ MaxModules \in Nat
    <3>1. below \subseteq 1 .. MaxModules
      BY Numbers DEF RecordTypes
    <3> QED BY <3>1, Numbers
  <2> HIDE DEF below
  <2>2. \E x \in below : \A y \in below : y <= x
    BY <1>2, <2>1, GreatestNat
  <2>3. (CHOOSE x \in below : \A y \in below : y <= x) \in below
    BY <2>2, Zenon
  <2> QED BY <2>3, <1>2 DEF NextOf, below
<1> QED BY <1>1, <1>2

LEMMA IteratorType ==
    ASSUME RecordTypes, NEW m
    PROVE  ItrNext(m) \in 0 .. MaxModules /\ ItrFirst \in 0 .. MaxModules
<1>1. NextOf(m) \in list \cup {0} /\ NextOf(started + 1) \in list \cup {0}
  BY NextOfType
<1>2. list \cup {0} \subseteq 0 .. MaxModules
  BY Numbers DEF RecordTypes
<1> QED BY <1>1, <1>2, Zenon DEF ItrNext, ItrFirst

(* Killing moves the modules that are still on the list to the death row. *)
LEMMA KillKeeps ==
    ASSUME RecordTypes, FreedOnce, NEW S, Kill(S), freed' = freed, started' = started
    PROVE  RecordTypes' /\ FreedOnce'
<1> DEFINE K == S \cap list
<1>1. PICK s \in Orders(K) : row' = row \o s
  BY DEF Kill
<1>2. list' = list \ S
  BY DEF Kill
<1>3. /\ s \in [1 .. Cardinality(K) -> K]
      /\ \A i, j \in DOMAIN s : s[i] = s[j] => i = j
      /\ \A m \in K : \E i \in DOMAIN s : s[i] = m
  BY DEF Orders
<1>4. Cardinality(K) \in Nat
  <2>1. IsFiniteSet(Modules)
    BY Numbers, FS_Interval
  <2>2. K \subseteq Modules
    BY DEF RecordTypes
  <2> QED BY <2>1, <2>2, FS_Subset, FS_CardinalityType
<1> DEFINE n == Cardinality(K)
<1> DEFINE r == Len(row)
<1>5. s \in Seq(Modules) /\ Len(s) = n
  <2>1. K \subseteq Modules
    BY DEF RecordTypes
  <2> HIDE DEF K
  <2>2. s \in [1 .. n -> Modules] /\ n \in Nat
    BY <1>3, <1>4, <2>1
  <2> QED BY <2>2
<1> HIDE DEF n, K
<1>6. /\ row' \in Seq(Modules)
      /\ DOMAIN row' = 1 .. (r + n)
      /\ \A i \in 1 .. r : row'[i] = row[i]
      /\ \A i \in (r + 1) .. (r + n) : i - r \in 1 .. n /\ row'[i] = s[i - r]
      /\ \A i \in 1 .. n : row'[i + r] = s[i] /\ i + r \in 1 .. (r + n)
      /\ DOMAIN row = 1 .. r /\ DOMAIN s = 1 .. n /\ r \in Nat /\ n \in Nat
  <2>1. row \in Seq(Modules) /\ r \in Nat /\ n \in Nat
    BY <1>4 DEF RecordTypes, n
  <2>2. DOMAIN row = 1 .. r /\ DOMAIN s = 1 .. n
    BY <2>1, <1>5
  <2>3. /\ row \o s \in Seq(Modules)
        /\ DOMAIN (row \o s) = 1 .. r + n
        /\ \A d \in 1 .. r : (row \o s)[d] = row[d]
        /\ \A d \in 1 .. n : (row \o s)[d + r] = s[d]
        /\ \A d \in (r + 1) .. (r + n) : d - r \in 1 .. n /\ (row \o s)[d] = s[d - r]
    <3> HIDE DEF r
    <3>1. Len(row) = r /\ Len(s) = n
      BY <1>5 DEF r
    <3>2. row \in Seq(Modules) /\ s \in Seq(Modules)
      BY <2>1, <1>5
    <3> DEFINE t == row \o s
    <3>3. /\ t \in Seq(Modules)
          /\ DOMAIN t = 1 .. Len(row) + Len(s)
          /\ \A d \in 1 .. Len(row) : t[d] = row[d]
          /\ \A d \in 1 .. Len(s) : t[d + Len(row)] = s[d]
          /\ \A d \in (Len(row) + 1) .. (Len(row) + Len(s)) :
                d - Len(row) \in 1 .. Len(s) /\ t[d] = s[d - Len(row)]
      BY <3>2, ConcatFacts
    <3> HIDE DEF t
    <3>4. /\ t \in Seq(Modules)
          /\ DOMAIN t = 1 .. r + n
          /\ \A d \in 1 .. r : t[d] = row[d]
          /\ \A d \in 1 .. n : t[d + r] = s[d]
          /\ \A d \in (r + 1) .. (r + n) : d - r \in 1 .. n /\ t[d] = s[d - r]
      BY <3>1, <3>3
    <3> QED BY <3>4 DEF t
  <2>4. \A i \in 1 .. n : i + r \in 1 .. (r + n)
    BY <2>1
  <2> QED BY <2>1, <2>2, <2>3, <2>4, <1>1
<1>7. \A i \in 1 .. n : s[i] \in K
  BY <1>3 DEF n
<1>8. \A i \in 1 .. r : row[i] \notin list \cup freed
  BY <1>6 DEF FreedOnce
<1> HIDE DEF r
<1>9. \A i, j \in DOMAIN row' : row'[i] = row'[j] => i = j
  <2> SUFFICES ASSUME NEW i \in 1 .. (r + n), NEW j \in 1 .. (r + n), row'[i] = row'[j]
               PROVE  i = j
    BY <1>6
  <2>1. CASE i <= r /\ j <= r
    BY <2>1, <1>6, SMTT(30) DEF FreedOnce
  <2>2. CASE i > r /\ j > r
    <3>1. i - r \in DOMAIN s /\ j - r \in DOMAIN s /\ s[i - r] = s[j - r]
      BY <2>2, <1>6
    <3>2. i - r = j - r
      BY <3>1, <1>3
    <3> QED BY <3>2, <1>6
  <2>3. CASE i <= r /\ j > r
    <3>1. row[i] \notin list /\ s[j - r] \in list
      BY <2>3, <1>6, <1>7, <1>8 DEF K
    <3> QED BY <3>1, <2>3, <1>6
  <2>4. CASE i > r /\ j <= r
    <3>1. row[j] \notin list /\ s[i - r] \in list
      BY <2>4, <1>6, <1>7, <1>8 DEF K
    <3> QED BY <3>1, <2>4, <1>6
  <2> QED BY <2>1, <2>2, <2>3, <2>4, <1>6
<1>10. \A i \in DOMAIN row' : row'[i] \notin list' \cup freed'
  <2> SUFFICES ASSUME NEW i \in 1 .. (r + n) PROVE row'[i] \notin list' \cup freed
    BY <1>6
  <2>1. CASE i <= r
    BY <2>1, <1>2, <1>6, <1>8
  <2>2. CASE i > r
    <3>1. row'[i] \in S /\ row'[i] \in list
      BY <2>2, <1>6, <1>7 DEF K
    <3> QED BY <3>1, <1>2 DEF FreedOnce
  <2> QED BY <2>1, <2>2, <1>6
<1>11. list' \cup freed' \cup {row'[i] : i \in DOMAIN row'} = 1 .. started'
  <2>1. \A m \in K : \E i \in DOMAIN row' : row'[i] = m
    BY <1>3, <1>6, SMTT(30)
  <2>2. \A i \in DOMAIN row' : row'[i] \in K \cup {row[j] : j \in DOMAIN row}
    <3> SUFFICES ASSUME NEW i \in 1 .. (r + n)
                 PROVE  row'[i] \in K \cup {row[j] : j \in DOMAIN row}
      BY <1>6
    <3>1. CASE i <= r
      BY <3>1, <1>6
    <3>2. CASE i > r
      BY <3>2, <1>6, <1>7
    <3> QED BY <3>1, <3>2, <1>6
  <2>3. \A j \in DOMAIN row : \E i \in DOMAIN row' : row'[i] = row[j]
    BY <1>6
  <2>4. {row'[i] : i \in DOMAIN row'} = K \cup {row[j] : j \in DOMAIN row}
    BY <2>1, <2>2, <2>3
  <2>5. list' \cup K = list
    BY <1>2 DEF K
  <2> QED BY <2>4, <2>5 DEF FreedOnce
<1>12. list' \cap freed' = {}
  BY <1>2 DEF FreedOnce
<1> QED BY <1>2, <1>6, <1>9, <1>10, <1>11, <1>12 DEF RecordTypes, FreedOnce

LEMMA RecordsStep ==
    ASSUME IInv, Next
    PROVE  RecordTypes' /\ FreedOnce'
<1> USE DEF IInv
<1>1. CASE UNCHANGED records
  BY <1>1 DEF records, RecordTypes, FreedOnce
<1>2. ASSUME NEW S, Kill(S), UNCHANGED <<freed, started>>
      PROVE  RecordTypes' /\ FreedOnce'
  BY <1>2, KillKeeps
<1>3. ASSUME TakeInput(Top.mod), UNCHANGED <<freed, started>>
      PROVE  RecordTypes' /\ FreedOnce'
  <2>1. CASE UNCHANGED <<list, row>>
    BY <2>1, <1>1, <1>3 DEF records
  <2>2. CASE Kill({Top.mod})
    BY <2>2, <1>2, <1>3
  <2> QED BY <2>1, <2>2, <1>3 DEF TakeInput
<1>4. CASE Write
  <2>1. CASE FlushFails \/ FlushTimeout
    BY <2>1, <1>2 DEF FlushFails, FlushTimeout
  <2>2. CASE ~(FlushFails \/ FlushTimeout)
    BY <2>2, <1>4, <1>1 DEF Write, Broadcast, BroadcastEnds, FlushWrites, FlushEnds, records
  <2> QED BY <2>1, <2>2
<1>5. CASE Wait
  <2>1. CASE SyncReceive
    BY <2>1, <1>3 DEF SyncReceive
  <2>2. CASE SyncEof \/ SyncTimeout
    BY <2>2, <1>2 DEF SyncEof, SyncTimeout
  <2> QED BY <1>5, <2>1, <2>2 DEF Wait
<1>6. CASE CmdKills
  BY <1>6, <1>2 DEF CmdKills
<1>7. CASE CmdStarts
  <2>1. CASE UNCHANGED <<started, list, running>>
    BY <2>1, <1>7, <1>1 DEF CmdStarts, records
  <2>2. CASE started < MaxModules /\ started' = started + 1 /\ list' = list \cup {started'}
    <3>1. row' = row /\ freed' = freed
      BY <1>7 DEF CmdStarts
    <3>2. RecordTypes'
      BY <2>2, <3>1, Numbers DEF RecordTypes
    <3>3. started \in Nat /\ started + 1 \notin 1 .. started
          /\ 1 .. started + 1 = 1 .. started \cup {started + 1}
      BY Numbers DEF RecordTypes
    <3>4. /\ \A i \in DOMAIN row : row[i] \in 1 .. started
          /\ list \subseteq 1 .. started /\ freed \subseteq 1 .. started
      BY DEF FreedOnce
    <3>5. FreedOnce'
      BY <2>2, <3>1, <3>3, <3>4 DEF FreedOnce
    <3> QED BY <3>2, <3>5
  <2> QED BY <1>7, <2>1, <2>2 DEF CmdStarts
<1>8. CASE CmdBroadcasts \/ CmdReplies \/ CmdWaits \/ CmdGrabs \/ CmdDoesNothing \/ CmdEnds
  BY <1>8, <1>1 DEF CmdBroadcasts, CmdReplies, CmdWaits, CmdGrabs, CmdDoesNothing, CmdEnds
<1>9. CASE Cleanup
  <2>1. /\ row' = <<>> /\ list' = list /\ started' = started
        /\ freed' = freed \cup {row[i] : i \in DOMAIN row}
    BY <1>9 DEF Cleanup
  <2>2. RecordTypes'
    <3>1. \A i \in DOMAIN row : row[i] \in Modules
      BY DEF RecordTypes
    <3>2. <<>> \in Seq(Modules)
      OBVIOUS
    <3> QED BY <2>1, <3>1, <3>2 DEF RecordTypes
  <2>3. FreedOnce'
    BY <2>1 DEF FreedOnce
  <2> QED BY <2>2, <2>3
<1>10. ASSUME ScanReads PROVE RecordTypes' /\ FreedOnce'
  <2>1. PICK m \in Top.in : TakeInput(m) /\ Scanning(m)
    BY <1>10 DEF ScanReads
  <2>2. UNCHANGED <<freed, started>>
    BY <1>10 DEF ScanReads
  <2>3. CASE UNCHANGED <<list, row>>
    BY <2>3, <2>2, <1>1 DEF records
  <2>4. CASE Kill({m})
    BY <2>4, <2>2, <1>2
  <2> QED BY <2>1, <2>3, <2>4 DEF TakeInput
<1>11. CASE ScanEof
  BY <1>11, <1>2 DEF ScanEof
<1>12. CASE SelectReturns \/ ScanWrites \/ ScanEnds \/ QueueExecutes
  BY <1>12, <1>1 DEF SelectReturns, ScanWrites, ScanEnds, QueueExecutes
<1>13. CASE Event
  BY <1>13, <1>1 DEF Event
<1>14. ASSUME NEW m \in Modules, Process(m) PROVE RecordTypes' /\ FreedOnce'
  <2>1. CASE ProcReads(m)
    BY <2>1, <1>1, Zenon DEF ProcReads
  <2>2. CASE ProcSends(m)
    BY <2>2, <1>1, Zenon DEF ProcSends
  <2>3. CASE ProcExits(m)
    BY <2>3, <1>1, Zenon DEF ProcExits
  <2> QED BY <1>14, <2>1, <2>2, <2>3, Zenon DEF Process
<1> QED BY <1>4, <1>5, <1>6, <1>7, <1>8, <1>9, <1>10, <1>11, <1>12, <1>13, <1>14
        DEF Next, Fvwm, Command, Round

-----------------------------------------------------------------------------
(* The stream *)

LEMMA AppendConsecutive ==
    ASSUME NEW s \in Seq(Nat), NEW b \in Int, Consecutive(s, b),
           NEW e \in Nat, e = b + Len(s) + 1
    PROVE  Consecutive(Append(s, e), b)
<1> DEFINE t == Append(s, e)
<1>1. /\ DOMAIN t = 1 .. Len(s) + 1 /\ t[Len(s) + 1] = e
      /\ \A i \in 1 .. Len(s) : t[i] = s[i]
  BY AppendFacts
<1> HIDE DEF t
<1>2. Len(s) \in Nat /\ DOMAIN s = 1 .. Len(s)
  OBVIOUS
<1>3. \A i \in DOMAIN s : s[i] = b + i
  BY DEF Consecutive
<1>4. ASSUME NEW i \in DOMAIN t PROVE t[i] = b + i
  <2>1. CASE i = Len(s) + 1
    BY <2>1, <1>1, <1>2
  <2>2. CASE i # Len(s) + 1
    <3>1. i \in 1 .. Len(s)
      BY <2>2, <1>1, <1>2
    <3> QED BY <3>1, <1>1, <1>2, <1>3
  <2> QED BY <2>1, <2>2
<1> QED BY <1>4 DEF Consecutive, t

LEMMA TailConsecutive ==
    ASSUME NEW s \in Seq(Nat), NEW b \in Int, Consecutive(s, b), s # <<>>
    PROVE  Head(s) = b + 1 /\ Consecutive(Tail(s), b + 1)
<1> DEFINE t == Tail(s)
<1>1. /\ DOMAIN t = 1 .. Len(s) - 1 /\ Head(s) = s[1]
      /\ \A i \in 1 .. Len(s) - 1 : t[i] = s[i + 1]
  BY TailFacts
<1>2. Len(s) \in Nat /\ Len(s) > 0 /\ DOMAIN s = 1 .. Len(s)
  OBVIOUS
<1> HIDE DEF t
<1>3. \A i \in 1 .. Len(s) : s[i] = b + i
  BY <1>2 DEF Consecutive
<1>4. Head(s) = b + 1
  BY <1>1, <1>2, <1>3
<1>5. \A i \in DOMAIN t : i + 1 \in 1 .. Len(s) /\ t[i] = s[i + 1] /\ i \in Int
  BY <1>1, <1>2
<1>6. \A i \in DOMAIN t : t[i] = b + 1 + i
  BY <1>5, <1>3
<1> QED BY <1>4, <1>6 DEF Consecutive, t

LEMMA ConcatConsecutive ==
    ASSUME NEW s \in Seq(Nat), NEW b \in Nat, Consecutive(s, b),
           NEW k \in Nat, NEW v \in [1 .. k -> Nat], \A i \in 1 .. k : v[i] = b + Len(s) + i
    PROVE  s \o v \in Seq(Nat) /\ Len(s \o v) = Len(s) + k /\ Consecutive(s \o v, b)
<1>1. Len(s) \in Nat /\ DOMAIN s = 1 .. Len(s)
  OBVIOUS
<1>2. v \in [1 .. k -> Nat]
  OBVIOUS
<1>3. \A i \in 1 .. k : v[i] = b + Len(s) + i
  OBVIOUS
<1> DEFINE r == s \o v
<1>4. r = s \o v
  OBVIOUS
<1>5. v \in Seq(Nat) /\ Len(v) = k
  <2>1. \A f \in [1 .. k -> Nat] : f \in Seq(Nat) /\ Len(f) = k
    OBVIOUS
  <2> QED BY <1>2, <2>1
<1>6. /\ s \o v \in Seq(Nat) /\ Len(s \o v) = Len(s) + Len(v)
      /\ DOMAIN (s \o v) = 1 .. Len(s) + Len(v)
      /\ \A d \in 1 .. Len(s) : (s \o v)[d] = s[d]
      /\ \A d \in (Len(s) + 1) .. (Len(s) + Len(v)) :
            d - Len(s) \in 1 .. Len(v) /\ (s \o v)[d] = v[d - Len(s)]
  <2>1. ASSUME NEW x \in Seq(Nat), NEW y \in Seq(Nat)
        PROVE  /\ x \o y \in Seq(Nat) /\ Len(x \o y) = Len(x) + Len(y)
               /\ DOMAIN (x \o y) = 1 .. Len(x) + Len(y)
               /\ \A d \in 1 .. Len(x) : (x \o y)[d] = x[d]
               /\ \A d \in (Len(x) + 1) .. (Len(x) + Len(y)) :
                     d - Len(x) \in 1 .. Len(y) /\ (x \o y)[d] = y[d - Len(x)]
    BY ConcatFacts
  <2> QED BY <1>5, <2>1, Zenon
<1> HIDE DEF r
<1>7. /\ r \in Seq(Nat) /\ Len(r) = Len(s) + k /\ DOMAIN r = 1 .. Len(s) + k
      /\ \A d \in 1 .. Len(s) : r[d] = s[d]
      /\ \A d \in (Len(s) + 1) .. (Len(s) + k) :
            d - Len(s) \in 1 .. k /\ r[d] = v[d - Len(s)]
  <2>1. Len(v) = k
    BY <1>5
  <2>2. /\ r \in Seq(Nat) /\ Len(r) = Len(s) + Len(v)
        /\ DOMAIN r = 1 .. Len(s) + Len(v)
        /\ \A d \in 1 .. Len(s) : r[d] = s[d]
        /\ \A d \in (Len(s) + 1) .. (Len(s) + Len(v)) :
              d - Len(s) \in 1 .. Len(v) /\ r[d] = v[d - Len(s)]
    BY <1>4, <1>6, Zenon
  <2> QED BY <2>1, <2>2
<1>8. \A i \in 1 .. Len(s) : s[i] = b + i
  BY <1>1 DEF Consecutive
<1>9. ASSUME NEW d \in 1 .. Len(s) + k PROVE r[d] = b + d
  <2>1. CASE d <= Len(s)
    <3>1. d \in 1 .. Len(s)
      BY <2>1, <1>1
    <3>2. r[d] = s[d]
      BY <3>1, <1>7
    <3> QED BY <3>1, <3>2, <1>8
  <2>2. CASE d > Len(s)
    <3>1. d \in (Len(s) + 1) .. (Len(s) + k)
      BY <2>2, <1>1
    <3>2. d - Len(s) \in 1 .. k /\ r[d] = v[d - Len(s)]
      BY <3>1, <1>7
    <3>3. r[d] = b + Len(s) + (d - Len(s))
      BY <3>2, <1>3
    <3>4. Len(s) \in Nat /\ d \in Nat /\ b \in Nat
      BY <1>1
    <3> QED BY <3>3, <3>4
  <2> QED BY <2>1, <2>2, <1>1
<1> QED BY <1>7, <1>9 DEF Consecutive, r

(* StreamIntact for one module: its queue, what is done of the first message,
   the pipe, the last unit read, and the number of messages it was sent. *)
Intact(q, d, p, g, n) ==
    /\ Consecutive(q, n - Len(q))
    /\ Consecutive(p, g)
    /\ g + Len(p) = (n - Len(q)) * Size + d
    /\ q = <<>> => d = 0

LEMMA StreamIsIntact ==
    StreamIntact <=> \A m \in Modules :
                        Intact(queue[m], done[m], pipe[m], got[m], Len(log[m]))
BY DEF StreamIntact, Intact

LEMMA IntactPut ==
    ASSUME NEW q \in Seq(Nat), NEW d \in Nat, NEW p \in Seq(Nat), NEW g \in Nat,
           NEW n \in Nat, Intact(q, d, p, g, n)
    PROVE  Intact(Append(q, n + 1), d, p, g, n + 1)
<1> DEFINE r == Append(q, n + 1)
<1> DEFINE b == n - Len(q)
<1>1. Len(q) \in Nat /\ b \in Int /\ n + 1 \in Nat /\ n + 1 = b + Len(q) + 1
  OBVIOUS
<1>2. Len(r) = Len(q) + 1 /\ r # <<>>
  <2>1. ASSUME NEW e \in Nat PROVE Len(Append(q, e)) = Len(q) + 1 /\ Append(q, e) # <<>>
    BY AppendFacts
  <2> QED BY <1>1, <2>1, Zenon
<1>3. Consecutive(q, b)
  BY DEF Intact
<1>4. Consecutive(r, b)
  <2> HIDE DEF b
  <2> QED BY <1>1, <1>3, AppendConsecutive
<1> HIDE DEF r
<1>5. n + 1 - Len(r) = b
  BY <1>1, <1>2
<1> QED BY <1>2, <1>4, <1>5 DEF Intact, r

LEMMA IntactRead ==
    ASSUME NEW q \in Seq(Nat), NEW d \in Nat, NEW p \in Seq(Nat), NEW g \in Nat,
           NEW n \in Nat, Intact(q, d, p, g, n), p # <<>>
    PROVE  Head(p) = g + 1 /\ Intact(q, d, Tail(p), g + 1, n)
<1>1. Consecutive(p, g) /\ g \in Int
  BY DEF Intact
<1>2. Head(p) = g + 1 /\ Consecutive(Tail(p), g + 1)
  BY <1>1, TailConsecutive
<1>3. Len(Tail(p)) = Len(p) - 1 /\ Len(p) \in Nat
  BY TailFacts
<1>4. g + 1 + Len(Tail(p)) = g + Len(p)
  BY <1>3
<1> QED BY <1>2, <1>4 DEF Intact

LEMMA IntactWrite ==
    ASSUME NEW q \in Seq(Nat), NEW d \in 0 .. Size - 1, NEW p \in Seq(Nat), NEW g \in Nat,
           NEW n \in Nat, Intact(q, d, p, g, n), q # <<>>,
           NEW k \in 1 .. Size - d,
           NEW r, r = p \o [i \in 1 .. k |-> (Head(q) - 1) * Size + d + i]
    PROVE  /\ r \in Seq(Nat)
           /\ d + k = Size => Intact(Tail(q), 0, r, g, n)
           /\ d + k # Size => d + k \in 0 .. Size - 1 /\ Intact(q, d + k, r, g, n)
<1> DEFINE a == n - Len(q)
<1> DEFINE u == (Head(q) - 1) * Size + d
<1>1. Size \in Nat \ {0}
  BY Numbers
<1>2. /\ k \in Nat /\ d \in Nat /\ Len(q) \in Nat /\ Len(q) > 0
      /\ Len(p) \in Nat /\ a \in Int
  BY <1>1
<1>3. /\ Consecutive(q, a) /\ Consecutive(p, g)
      /\ g + Len(p) = a * Size + d
  BY DEF Intact
<1>4. Head(q) = a + 1 /\ Consecutive(Tail(q), a + 1)
  <2> HIDE DEF a
  <2> QED BY <1>2, <1>3, TailConsecutive
<1>5. u = a * Size + d
  <2> HIDE DEF a
  <2>1. Head(q) - 1 = a
    BY <1>2, <1>4
  <2> QED BY <2>1
<1>6. u = g + Len(p)
  BY <1>3, <1>5
<1>7. r = p \o [i \in 1 .. k |-> u + i]
  OBVIOUS
<1> HIDE DEF u
<1>8. r \in Seq(Nat) /\ Len(r) = Len(p) + k /\ Consecutive(r, g)
  <2> DEFINE v == [i \in 1 .. k |-> u + i]
  <2>1. v \in [1 .. k -> Nat] /\ \A i \in 1 .. k : v[i] = g + Len(p) + i
    BY <1>2, <1>6
  <2>2. r = p \o v
    BY <1>7
  <2> HIDE DEF a, v
  <2>3. k \in Nat /\ Consecutive(p, g)
    BY <1>2, <1>3
  <2>4. p \o v \in Seq(Nat) /\ Len(p \o v) = Len(p) + k /\ Consecutive(p \o v, g)
    BY <2>1, <2>3, ConcatConsecutive
  <2> QED BY <2>2, <2>4
<1>9. g + Len(r) = a * Size + (d + k)
  <2>1. PICK c \in Int : c = a * Size
    BY <1>1, <1>2
  <2>2. g + Len(p) = c + d
    BY <2>1, <1>3
  <2> HIDE DEF a
  <2>3. ASSUME NEW x \in Nat, NEW y \in Nat, g + y = c + d, x = y + k
        PROVE  g + x = c + (d + k)
    BY <2>3, <1>2
  <2>4. Len(r) \in Nat /\ Len(r) = Len(p) + k
    BY <1>2, <1>8
  <2>5. g + Len(r) = c + (d + k)
    BY <2>2, <2>3, <2>4, <1>2, Zenon
  <2> QED BY <2>1, <2>5, Zenon
<1>10. ASSUME d + k = Size PROVE Intact(Tail(q), 0, r, g, n)
  <2>1. Len(Tail(q)) = Len(q) - 1
    BY TailFacts
  <2>2. n - Len(Tail(q)) = a + 1
    BY <2>1, <1>2
  <2>3. (a + 1) * Size = a * Size + Size
    <3> HIDE DEF a
    <3> QED BY <1>1, <1>2
  <2>4. a * Size + (d + k) = (a + 1) * Size + 0
    <3> HIDE DEF a
    <3>1. (a + 1) * Size \in Int
      BY <1>1, <1>2
    <3> QED BY <2>3, <1>10, <3>1
  <2>5. g + Len(r) = (n - Len(Tail(q))) * Size + 0
    BY <2>2, <2>4, <1>9, Zenon
  <2>6. Consecutive(Tail(q), n - Len(Tail(q)))
    BY <2>2, <1>4, Zenon
  <2> QED BY <1>8, <2>5, <2>6 DEF Intact
<1>11. ASSUME d + k # Size
       PROVE  d + k \in 0 .. Size - 1 /\ Intact(q, d + k, r, g, n)
  <2>1. d + k \in 0 .. Size - 1
    BY <1>11, <1>1, <1>2
  <2> QED BY <2>1, <1>3, <1>8, <1>9 DEF Intact
<1> QED BY <1>8, <1>10, <1>11

(* What changes for one module only. *)
LEMMA StreamOfOne ==
    ASSUME StreamIntact, NEW m \in Modules,
           Intact(queue'[m], done'[m], pipe'[m], got'[m], Len(log'[m])),
           \A x \in Modules \ {m} :
               /\ queue'[x] = queue[x] /\ done'[x] = done[x] /\ pipe'[x] = pipe[x]
               /\ got'[x] = got[x] /\ log'[x] = log[x]
    PROVE  StreamIntact'
<1>1. ASSUME NEW x \in Modules
      PROVE  Intact(queue'[x], done'[x], pipe'[x], got'[x], Len(log'[x]))
  <2>1. CASE x = m
    BY <2>1
  <2>2. CASE x # m
    <3>1. Intact(queue[x], done[x], pipe[x], got[x], Len(log[x]))
      BY StreamIsIntact
    <3> QED BY <2>2, <3>1
  <2> QED BY <2>1, <2>2
<1> QED BY <1>1 DEF StreamIntact, Intact

LEMMA PutStream ==
    ASSUME StreamTypes, StreamIntact, NEW m \in Modules, NEW k \in Kinds, NEW fs,
           PositiveWrite(m, k, fs), UNCHANGED <<pipe, got>>
    PROVE  StreamTypes' /\ StreamIntact'
<1>1. CASE ~Accepts(m, k)
  <2>1. UNCHANGED <<queue, done, log>>
    BY <1>1 DEF PositiveWrite, queues
  <2> QED BY <2>1 DEF StreamTypes, StreamIntact
<1>2. CASE Accepts(m, k)
  <2> DEFINE no == Len(log[m]) + 1
  <2>1. /\ log' = [log EXCEPT ![m] = Append(log[m], k)]
        /\ queue' = [queue EXCEPT ![m] = Append(queue[m], no)]
        /\ done' = done
    BY <1>2 DEF PositiveWrite, PutLast
  <2>2. /\ log[m] \in Seq(Kinds) /\ queue[m] \in Seq(Nat) /\ pipe[m] \in Seq(Nat)
        /\ got[m] \in Nat /\ done[m] \in Nat /\ Len(log[m]) \in Nat /\ no \in Nat
    BY Numbers, SMTT(30) DEF StreamTypes
  <2>3. /\ Append(log[m], k) \in Seq(Kinds) /\ Len(Append(log[m], k)) = no
        /\ Append(queue[m], no) \in Seq(Nat)
    <3>1. ASSUME NEW s \in Seq(Kinds)
          PROVE  Append(s, k) \in Seq(Kinds) /\ Len(Append(s, k)) = Len(s) + 1
      BY AppendFacts
    <3>2. ASSUME NEW s \in Seq(Nat), NEW e \in Nat PROVE Append(s, e) \in Seq(Nat)
      BY AppendFacts
    <3> QED BY <2>2, <3>1, <3>2, Zenon
  <2>4. Intact(Append(queue[m], no), done[m], pipe[m], got[m], no)
    <3>1. Intact(queue[m], done[m], pipe[m], got[m], Len(log[m]))
      BY StreamIsIntact
    <3> QED BY <2>2, <3>1, IntactPut
  <2> HIDE DEF no
  <2>5. StreamTypes'
    BY <2>1, <2>3 DEF StreamTypes
  <2>6. /\ log'[m] = Append(log[m], k) /\ queue'[m] = Append(queue[m], no)
        /\ \A x \in Modules \ {m} : log'[x] = log[x] /\ queue'[x] = queue[x]
    BY <2>1 DEF StreamTypes
  <2>7. Intact(queue'[m], done'[m], pipe'[m], got'[m], Len(log'[m]))
    BY <2>1, <2>3, <2>4, <2>6
  <2>8. StreamIntact'
    BY <2>1, <2>6, <2>7, StreamOfOne
  <2> QED BY <2>5, <2>8
<1> QED BY <1>1, <1>2

LEMMA FlushStream ==
    ASSUME StreamTypes, StreamIntact, Top.mod \in Modules, FlushWrites
    PROVE  StreamTypes' /\ StreamIntact'
<1> DEFINE m == Top.mod
<1>1. /\ log[m] \in Seq(Kinds) /\ queue[m] \in Seq(Nat) /\ pipe[m] \in Seq(Nat)
      /\ got[m] \in Nat /\ done[m] \in 0 .. Size - 1 /\ Len(log[m]) \in Nat
  BY DEF StreamTypes
<1>2. queue[m] # <<>> /\ UNCHANGED <<got, log>>
  BY DEF FlushWrites
<1>3. PICK n \in 1 .. Size - done[m] :
        /\ pipe' = [pipe EXCEPT ![m] = pipe[m] \o
                       [i \in 1 .. n |-> (Head(queue[m]) - 1) * Size + done[m] + i]]
        /\ done' = [done EXCEPT ![m] = DoneAfter(m, n)]
        /\ queue' = IF done[m] + n = Size
                    THEN [queue EXCEPT ![m] = Tail(queue[m])] ELSE queue
  BY DEF FlushWrites
<1>4. Intact(queue[m], done[m], pipe[m], got[m], Len(log[m]))
  BY StreamIsIntact
<1> DEFINE r == pipe[m] \o [i \in 1 .. n |-> (Head(queue[m]) - 1) * Size + done[m] + i]
<1>5. m \in Modules
  OBVIOUS
<1> HIDE DEF m
<1>6. /\ r \in Seq(Nat)
      /\ done[m] + n = Size => Intact(Tail(queue[m]), 0, r, got[m], Len(log[m]))
      /\ done[m] + n # Size => /\ done[m] + n \in 0 .. Size - 1
                               /\ Intact(queue[m], done[m] + n, r, got[m], Len(log[m]))
  BY <1>1, <1>2, <1>4, IntactWrite
<1>7. pipe' = [pipe EXCEPT ![m] = r]
  BY <1>3
<1> HIDE DEF r
<1>8. pipe'[m] = r /\ \A x \in Modules \ {m} : pipe'[x] = pipe[x]
  BY <1>7, <1>5 DEF StreamTypes
<1>9. CASE done[m] + n = Size
  <2>1. done' = [done EXCEPT ![m] = 0] /\ queue' = [queue EXCEPT ![m] = Tail(queue[m])]
    BY <1>3, <1>9 DEF DoneAfter
  <2>2. 0 \in 0 .. Size - 1
    BY Numbers
  <2>3. Tail(queue[m]) \in Seq(Nat)
    BY <1>1, <1>2
  <2>4. StreamTypes'
    BY <1>2, <1>6, <1>7, <2>1, <2>2, <2>3 DEF StreamTypes
  <2>5. /\ done'[m] = 0 /\ queue'[m] = Tail(queue[m])
        /\ \A x \in Modules \ {m} : done'[x] = done[x] /\ queue'[x] = queue[x]
    BY <2>1, <1>5 DEF StreamTypes
  <2>6. Intact(queue'[m], done'[m], pipe'[m], got'[m], Len(log'[m]))
    BY <1>2, <1>6, <1>8, <1>9, <2>5
  <2>7. StreamIntact'
    BY <1>2, <1>5, <1>8, <2>5, <2>6, StreamOfOne
  <2> QED BY <2>4, <2>7
<1>10. CASE done[m] + n # Size
  <2>1. done' = [done EXCEPT ![m] = done[m] + n] /\ queue' = queue
    BY <1>3, <1>10 DEF DoneAfter
  <2>2. StreamTypes'
    BY <1>2, <1>6, <1>7, <1>10, <2>1 DEF StreamTypes
  <2>3. done'[m] = done[m] + n /\ \A x \in Modules \ {m} : done'[x] = done[x]
    BY <2>1, <1>5 DEF StreamTypes
  <2>4. Intact(queue'[m], done'[m], pipe'[m], got'[m], Len(log'[m]))
    BY <1>2, <1>6, <1>8, <1>10, <2>1, <2>3
  <2>5. StreamIntact'
    BY <1>2, <1>5, <1>8, <2>1, <2>3, <2>4, StreamOfOne
  <2> QED BY <2>2, <2>5
<1> QED BY <1>9, <1>10

LEMMA ReadStream ==
    ASSUME StreamTypes, StreamIntact, NEW m \in Modules, ProcReads(m)
    PROVE  StreamTypes' /\ StreamIntact'
<1>1. /\ pipe[m] # <<>>
      /\ got' = [got EXCEPT ![m] = Head(pipe[m])]
      /\ pipe' = [pipe EXCEPT ![m] = Tail(pipe[m])]
      /\ UNCHANGED <<queue, done, log>>
  BY DEF ProcReads, queues
<1>2. /\ log[m] \in Seq(Kinds) /\ queue[m] \in Seq(Nat) /\ pipe[m] \in Seq(Nat)
      /\ got[m] \in Nat /\ done[m] \in Nat /\ Len(log[m]) \in Nat
  BY Numbers DEF StreamTypes
<1>3. Intact(queue[m], done[m], pipe[m], got[m], Len(log[m]))
  BY StreamIsIntact
<1>4. /\ Head(pipe[m]) = got[m] + 1
      /\ Intact(queue[m], done[m], Tail(pipe[m]), got[m] + 1, Len(log[m]))
  BY <1>1, <1>2, <1>3, IntactRead
<1>5. Tail(pipe[m]) \in Seq(Nat) /\ Head(pipe[m]) \in Nat
  BY <1>1, <1>2, <1>4
<1>6. StreamTypes'
  BY <1>1, <1>5 DEF StreamTypes
<1>7. /\ got'[m] = got[m] + 1 /\ pipe'[m] = Tail(pipe[m])
      /\ \A x \in Modules \ {m} : got'[x] = got[x] /\ pipe'[x] = pipe[x]
  BY <1>1, <1>4 DEF StreamTypes
<1>8. Intact(queue'[m], done'[m], pipe'[m], got'[m], Len(log'[m]))
  BY <1>1, <1>4, <1>7
<1>9. StreamIntact'
  BY <1>1, <1>7, <1>8, StreamOfOne
<1> QED BY <1>6, <1>9

LEMMA StreamStep ==
    ASSUME IInv, Next
    PROVE  StreamTypes' /\ StreamIntact'
<1> USE DEF IInv
<1>1. CASE UNCHANGED <<queue, done, log, pipe, got>>
  BY <1>1 DEF StreamTypes, StreamIntact
<1>2. Top \in Frames /\ FrameOK(Top)
  BY TopFacts
<1>3. CASE Broadcast
  <2>1. UNCHANGED <<pipe, got>> /\ Top.itr \in Modules /\ Top.msg \in Kinds
    BY <1>2, <1>3 DEF Broadcast, process, RecordTypes, Frames
  <2>2. \/ UNCHANGED queues
        \/ \E fs : PositiveWrite(Top.itr, Top.msg, fs)
    BY <1>3 DEF Broadcast
  <2>3. CASE UNCHANGED queues
    BY <2>1, <2>3, <1>1 DEF queues
  <2>4. ASSUME NEW fs, PositiveWrite(Top.itr, Top.msg, fs)
        PROVE  StreamTypes' /\ StreamIntact'
    BY <2>1, <2>4, PutStream
  <2> QED BY <2>2, <2>3, <2>4
<1>4. CASE CmdReplies
  <2>1. UNCHANGED <<pipe, got>> /\ Reply \in Kinds
    BY <1>4, Numbers DEF CmdReplies, process
  <2>2. CASE Top.mod = 0
    <3>1. UNCHANGED queues
      BY <2>2, <1>4 DEF CmdReplies
    <3> QED BY <2>1, <3>1, <1>1 DEF queues
  <2>3. CASE Top.mod # 0
    <3>1. Top.mod \in Modules
      BY <2>3, <1>2, Numbers DEF Frames
    <3>2. \E fs : PositiveWrite(Top.mod, Reply, fs)
      BY <2>3, <1>4 DEF CmdReplies
    <3> QED BY <2>1, <3>1, <3>2, PutStream
  <2> QED BY <2>2, <2>3
<1>5. CASE FlushWrites
  <2>1. Top.mod \in Modules
    BY <1>2, <1>5 DEF FlushWrites, At, FrameOK
  <2> QED BY <2>1, <1>5, FlushStream
<1>6. CASE BroadcastEnds \/ FlushEnds
  BY <1>6, <1>1 DEF BroadcastEnds, FlushEnds, queues, process
<1>7. CASE FlushFails \/ FlushTimeout
  BY <1>7, <1>1 DEF FlushFails, FlushTimeout, queues, process
<1>8. CASE Wait
  BY <1>8, <1>1 DEF Wait, SyncReceive, SyncEof, SyncTimeout, queues, process
<1>9. CASE CmdBroadcasts \/ CmdKills \/ CmdStarts \/ CmdWaits \/ CmdGrabs \/ CmdDoesNothing \/ CmdEnds
  BY <1>9, <1>1 DEF CmdBroadcasts, CmdKills, CmdStarts, CmdWaits, CmdGrabs, CmdDoesNothing,
                    CmdEnds, queues, process
<1>10. CASE SelectReturns \/ ScanWrites \/ ScanEnds \/ QueueExecutes \/ Cleanup
  BY <1>10, <1>1 DEF SelectReturns, ScanWrites, ScanEnds, QueueExecutes, Cleanup, queues, process
<1>11. CASE ScanReads
  BY <1>11, <1>1 DEF ScanReads, queues
<1>12. CASE ScanEof
  BY <1>12, <1>1 DEF ScanEof, queues, process
<1>13. CASE Event
  BY <1>13, <1>1 DEF Event, queues, process
<1>14. ASSUME NEW m \in Modules, Process(m) PROVE StreamTypes' /\ StreamIntact'
  <2>1. CASE ProcReads(m)
    BY <2>1, ReadStream
  <2>2. CASE ProcSends(m)
    BY <2>2, <1>1, Zenon DEF ProcSends, queues
  <2>3. CASE ProcExits(m)
    BY <2>3, <1>1, Zenon DEF ProcExits, queues
  <2> QED BY <1>14, <2>1, <2>2, <2>3, Zenon DEF Process
<1> QED BY <1>3, <1>4, <1>5, <1>6, <1>7, <1>8, <1>9, <1>10, <1>11, <1>12, <1>13, <1>14
        DEF Next, Fvwm, Write, Command, Round

-----------------------------------------------------------------------------
(* The activations *)

LEMMA ReturnOK ==
    ASSUME StackOK(frames), ~At("loop"), Return
    PROVE  StackOK(frames')
<1>1. Depth > 1
  BY TopFacts
<1> QED BY <1>1, PopOK DEF Return, Callers, Depth

LEMMA CallOK ==
    ASSUME NEW fr, StackOK(fr), NEW m \in Modules, NEW no \in Nat
    PROVE  StackOK(Append(fr, FlushFrame(m))) /\ StackOK(Append(fr, SyncFrame(m, no)))
<1>1. m \in 0 .. MaxModules /\ <<>> \in Seq(Ops)
  BY Numbers
<1>2. /\ FlushFrame(m) \in Frames /\ FlushFrame(m).mod = m
      /\ SyncFrame(m, no) \in Frames /\ SyncFrame(m, no).mod = m
  BY <1>1, NewFrames
<1>3. FrameOK(FlushFrame(m)) /\ FrameOK(SyncFrame(m, no))
  BY <1>2, Zenon DEF FrameOK
<1> QED BY <1>2, <1>3, PushOK, Zenon

LEMMA CmdFrameOK ==
    ASSUME NEW fr, StackOK(fr), NEW m \in 0 .. MaxModules, NEW cmd \in Seq(Ops)
    PROVE  StackOK(Append(fr, CmdFrame(m, cmd)))
<1>1. CmdFrame(m, cmd) \in Frames /\ CmdFrame(m, cmd).kind = "cmd"
  <2>1. 0 \in Nat
    OBVIOUS
  <2> QED BY <2>1, NewFrames
<1>2. FrameOK(CmdFrame(m, cmd))
  BY <1>1 DEF FrameOK
<1> QED BY <1>1, <1>2, PushOK, Zenon

LEMMA WriteOK ==
    ASSUME StreamTypes, NEW m \in Modules, NEW k, NEW fs, StackOK(fs), PositiveWrite(m, k, fs)
    PROVE  StackOK(frames')
<1> DEFINE no == Len(log[m]) + 1
<1>1. no \in Nat
  BY DEF StreamTypes
<1>2. \/ frames' = fs
      \/ frames' = Append(Append(fs, SyncFrame(m, no)), FlushFrame(m))
  BY DEF PositiveWrite
<1> HIDE DEF no
<1> QED BY <1>1, <1>2, CallOK

(* The changes an activation makes to its own frame. *)
LEMMA OwnFrame ==
    ASSUME IInv
    PROVE  /\ \A i \in 0 .. MaxModules, S \in SUBSET Modules :
                 StackOK(Become([Top EXCEPT !.itr = i, !.seen = S]))
           /\ \A i \in 0 .. MaxModules : StackOK(Become([Top EXCEPT !.itr = i]))
           /\ \A i \in 0 .. MaxModules, S \in SUBSET Modules, T \in SUBSET Modules :
                 StackOK(Become([Top EXCEPT !.pc = "scan", !.itr = i, !.in = S, !.out = T]))
           /\ StackOK(Become([Top EXCEPT !.pc = "queue"]))
           /\ Top.rest # <<>> => StackOK(Rest)
<1>1. Top \in Frames /\ StackOK(frames)
  BY TopFacts DEF IInv
<1>2. ASSUME NEW f \in Frames, f.kind = Top.kind, f.mod = Top.mod
      PROVE  StackOK(Become(f))
  BY <1>1, <1>2, BecomeOK DEF Become, Top, Depth
<1>3. /\ \A i \in 0 .. MaxModules, S \in SUBSET Modules :
            LET f == [Top EXCEPT !.itr = i, !.seen = S]
            IN  f \in Frames /\ f.kind = Top.kind /\ f.mod = Top.mod
      /\ \A i \in 0 .. MaxModules :
            LET f == [Top EXCEPT !.itr = i]
            IN  f \in Frames /\ f.kind = Top.kind /\ f.mod = Top.mod
      /\ LET f == [Top EXCEPT !.pc = "queue"]
         IN  f \in Frames /\ f.kind = Top.kind /\ f.mod = Top.mod
  BY <1>1 DEF Frames
<1>4. \A i \in 0 .. MaxModules, S \in SUBSET Modules, T \in SUBSET Modules :
            LET f == [Top EXCEPT !.pc = "scan", !.itr = i, !.in = S, !.out = T]
            IN  f \in Frames /\ f.kind = Top.kind /\ f.mod = Top.mod
  BY <1>1 DEF Frames
<1>5. Top.rest # <<>> => LET f == [Top EXCEPT !.rest = Tail(Top.rest)]
                         IN  f \in Frames /\ f.kind = Top.kind /\ f.mod = Top.mod
  <2>1. Top.rest \in Seq(Ops)
    BY <1>1 DEF Frames
  <2>2. ASSUME NEW t \in Seq(Ops)
        PROVE  LET f == [Top EXCEPT !.rest = t]
               IN  f \in Frames /\ f.kind = Top.kind /\ f.mod = Top.mod
    BY <1>1 DEF Frames
  <2>3. Top.rest # <<>> => Tail(Top.rest) \in Seq(Ops)
    BY <2>1, TailFacts
  <2> QED BY <2>2, <2>3, Zenon
<1>6. Top.rest # <<>> => StackOK(Rest)
  BY <1>2, <1>5, Zenon DEF Rest
<1> QED BY <1>2, <1>3, <1>4, <1>6, ZenonT(60)

LEMMA FramesStep ==
    ASSUME IInv, Next
    PROVE  StackOK(frames')
<1>1. /\ StackOK(frames) /\ RecordTypes /\ StreamTypes /\ OtherTypes
      /\ Top \in Frames /\ FrameOK(Top)
  BY TopFacts DEF IInv
<1>2. ItrNext(Top.itr) \in 0 .. MaxModules /\ ItrFirst \in 0 .. MaxModules
      /\ \A m : ItrNext(m) \in 0 .. MaxModules
  BY <1>1, IteratorType
<1>3. CASE UNCHANGED frames
  BY <1>1, <1>3
<1>4. CASE ~At("loop") /\ Return
  BY <1>1, <1>4, ReturnOK
<1>5. CASE Broadcast
  <2> DEFINE m == Top.itr
  <2> DEFINE S == Top.seen \cup {m}
  <2> DEFINE fs == Become([Top EXCEPT !.itr = ItrNext(m), !.seen = S])
  <2>1. m \in Modules
    BY <1>1, <1>5 DEF Broadcast, RecordTypes
  <2>2. S \in SUBSET Modules
    BY <1>1, <2>1 DEF Frames
  <2>3. \/ frames' = fs
        \/ PositiveWrite(m, Top.msg, fs)
        \/ PositiveWrite(m, Top.msg, Append(fs, FlushFrame(m)))
    BY <1>5 DEF Broadcast
  <2> HIDE DEF S
  <2>4. StackOK(fs)
    BY <1>2, <2>2, OwnFrame, Zenon
  <2> HIDE DEF fs, m
  <2>5. 0 \in Nat
    OBVIOUS
  <2>6. StackOK(Append(fs, FlushFrame(m)))
    BY <2>1, <2>4, <2>5, CallOK, Zenon
  <2> QED BY <1>1, <2>1, <2>3, <2>4, <2>6, WriteOK, Zenon
<1>6. CASE BroadcastEnds \/ FlushEnds \/ FlushFails \/ FlushTimeout
  BY <1>4, <1>6 DEF BroadcastEnds, FlushEnds, FlushFails, FlushTimeout, At
<1>7. CASE FlushWrites
  BY <1>3, <1>7, Zenon DEF FlushWrites
<1>8. CASE SyncEof \/ SyncTimeout
  BY <1>4, <1>8 DEF SyncEof, SyncTimeout, At
<1>9. CASE SyncReceive
  <2> DEFINE input == Head(inbox[Top.mod])
  <2>1. At("sync") /\ inbox[Top.mod] # <<>>
        /\ (Return \/ Call(CmdFrame(Top.mod, input.cmd)))
    BY <1>9, Zenon DEF SyncReceive
  <2>2. Top.mod \in Modules /\ Top.mod \in 0 .. MaxModules
    BY <1>1, <2>1, Numbers DEF FrameOK, At
  <2>3. input.cmd \in Seq(Ops)
    <3>1. inbox[Top.mod] \in Seq(Input)
      BY <1>1, <2>2 DEF OtherTypes
    <3>2. input \in Input
      BY <2>1, <3>1, TailFacts
    <3> QED BY <3>2 DEF Input
  <2> HIDE DEF input
  <2>4. CASE Call(CmdFrame(Top.mod, input.cmd))
    BY <1>1, <2>2, <2>3, <2>4, CmdFrameOK, Zenon DEF Call
  <2>5. ~At("loop")
    BY <2>1 DEF At
  <2> QED BY <1>4, <2>1, <2>4, <2>5, Zenon
<1>10. At("cmd") /\ Top.rest # <<>> => StackOK(Rest)
  BY OwnFrame
<1>11. CASE CmdBroadcasts
  <2>1. PICK k \in Kinds \ {Reply} : Doing(k) /\ frames' = Append(Rest, BroadcastFrame(k))
    BY <1>11 DEF CmdBroadcasts
  <2>2. StackOK(Rest)
    BY <1>10, <2>1 DEF Doing
  <2>3. BroadcastFrame(k) \in Frames /\ BroadcastFrame(k).kind = "bcast"
    <3>1. Frame("bcast", 0) \in Frames /\ Frame("bcast", 0).kind = "bcast"
      <4>1. <<>> \in Seq(Ops)
        OBVIOUS
      <4> QED BY <4>1, Numbers DEF Frame, Frames
    <3>2. started \in Nat /\ k \in Kinds
      BY <1>1, Numbers DEF RecordTypes
    <3> QED BY <1>2, <3>1, <3>2 DEF BroadcastFrame, Frames
  <2>4. FrameOK(BroadcastFrame(k))
    BY <2>3 DEF FrameOK
  <2> QED BY <2>1, <2>2, <2>3, <2>4, PushOK, Zenon
<1>12. CASE CmdReplies
  <2>1. StackOK(Rest)
    BY <1>10, <1>12 DEF CmdReplies, Doing
  <2>2. CASE Top.mod = 0
    BY <1>12, <2>1, <2>2 DEF CmdReplies
  <2>3. CASE Top.mod # 0
    <3>1. Top.mod \in Modules /\ 0 \in Nat
      BY <2>3, <1>1, Numbers DEF Frames
    <3>2. PositiveWrite(Top.mod, Reply, Append(Rest, FlushFrame(Top.mod)))
      BY <1>12, <2>3 DEF CmdReplies
    <3>3. StackOK(Append(Rest, FlushFrame(Top.mod)))
      BY <2>1, <3>1, CallOK, Zenon
    <3> QED BY <1>1, <3>1, <3>2, <3>3, WriteOK, Zenon
  <2> QED BY <2>2, <2>3
<1>13. CASE CmdKills \/ CmdStarts \/ CmdGrabs \/ CmdDoesNothing
  BY <1>10, <1>13 DEF CmdKills, CmdStarts, CmdGrabs, CmdDoesNothing, Doing
<1>14. CASE CmdWaits
  <2>1. StackOK(Rest) /\ frames' = Append(Rest, LoopFrame)
    BY <1>10, <1>14 DEF CmdWaits, Doing
  <2>2. LoopFrame \in Frames /\ LoopFrame.kind = "loop"
    <3>1. 0 \in Nat /\ 0 \in 0 .. MaxModules /\ <<>> \in Seq(Ops)
      BY Numbers
    <3> QED BY <3>1, NewFrames
  <2>3. FrameOK(LoopFrame)
    BY <2>2 DEF FrameOK
  <2> QED BY <2>1, <2>2, <2>3, PushOK, Zenon
<1>15. CASE CmdEnds
  BY <1>4, <1>15 DEF CmdEnds, At
<1>16. CASE Event
  <2>1. PICK cmd \in EventInputs :
           \/ Call(CmdFrame(0, cmd))
           \/ Depth > 1 /\ frames' = Append(Callers, CmdFrame(0, cmd))
    BY <1>16 DEF Event
  <2>2. cmd \in Seq(Ops) /\ 0 \in 0 .. MaxModules
    BY Numbers
  <2>3. CASE Call(CmdFrame(0, cmd))
    BY <1>1, <2>2, <2>3, CmdFrameOK, Zenon DEF Call
  <2>4. CASE Depth > 1 /\ frames' = Append(Callers, CmdFrame(0, cmd))
    <3>1. StackOK(Callers)
      BY <1>1, <2>4, PopOK DEF Callers, Depth
    <3> QED BY <2>2, <2>4, <3>1, CmdFrameOK, Zenon
  <2> QED BY <2>1, <2>3, <2>4
<1>17. CASE SelectReturns
  <2>1. Readable \in SUBSET Modules /\ Writable \in SUBSET Modules
    BY <1>1 DEF RecordTypes, Readable, Writable
  <2> QED BY <1>2, <1>17, <2>1, OwnFrame, Zenon DEF SelectReturns
<1>18. ASSUME NEW m \in list, ScanNext(m) PROVE StackOK(frames')
  <2>1. m \in Modules /\ 0 \in Nat
    BY <1>1 DEF RecordTypes
  <2>2. StackOK(Become([Top EXCEPT !.itr = ItrNext(m)]))
    BY <1>2, OwnFrame
  <2> QED BY <1>18, <2>1, <2>2, CallOK DEF ScanNext
<1>19. CASE ScanReads \/ ScanEof \/ ScanWrites
  BY <1>18, <1>19, Zenon DEF ScanReads, ScanEof, ScanWrites, Scanning
<1>20. CASE ScanEnds
  BY <1>20, OwnFrame DEF ScanEnds
<1>21. CASE QueueExecutes
  <2>1. cqueue \in Seq(Entry) /\ cqueue # <<>>
    BY <1>1, <1>21 DEF OtherTypes, QueueExecutes
  <2>2. Head(cqueue) \in Entry
    BY <2>1, TailFacts
  <2>3. Head(cqueue).mod \in 0 .. MaxModules /\ Head(cqueue).cmd \in Seq(Ops)
    BY <2>2 DEF Entry
  <2>4. Call(CmdFrame(Head(cqueue).mod, Head(cqueue).cmd))
    BY <1>21 DEF QueueExecutes
  <2> QED BY <1>1, <2>3, <2>4, CmdFrameOK, Zenon DEF Call
<1>22. CASE Cleanup
  <2>1. frames' = Become(LoopFrame) /\ At("loop")
    BY <1>22 DEF Cleanup, InLoop
  <2>2. LoopFrame \in Frames /\ LoopFrame.kind = "loop" /\ LoopFrame.mod = 0
    <3>1. 0 \in Nat /\ 0 \in 0 .. MaxModules /\ <<>> \in Seq(Ops)
      BY Numbers
    <3> QED BY <3>1, NewFrames
  <2>3. frames \in Seq(Frames) /\ frames # <<>> /\ Depth = Len(frames)
    BY <1>1 DEF StackOK, Depth
  <2> DEFINE g == [frames EXCEPT ![Len(frames)] = LoopFrame]
  <2>4. /\ g \in Seq(Frames) /\ Len(g) = Len(frames) /\ DOMAIN g = 1 .. Len(frames)
        /\ g[Len(frames)] = LoopFrame
        /\ \A d \in 1 .. Len(frames) - 1 : g[d] = frames[d]
    BY <2>2, <2>3, LastFacts
  <2>5. frames' = g
    BY <2>1, <2>3 DEF Become
  <2> HIDE DEF g
  <2>6. Len(frames) \in Nat /\ Len(frames) > 0 /\ DOMAIN frames = 1 .. Len(frames)
    BY <2>3
  <2>7. \A d \in DOMAIN g : g[d] = LoopFrame \/ (d \in DOMAIN frames /\ g[d] = frames[d])
    BY <2>4, <2>6
  <2>8. FrameOK(LoopFrame)
    BY <2>2 DEF FrameOK
  <2>9. \A d \in DOMAIN g : FrameOK(g[d])
    BY <1>1, <2>7, <2>8, Zenon DEF StackOK
  <2>10. 1 \in DOMAIN g /\ g[1].kind = "loop"
    BY <1>1, <2>2, <2>4, <2>6, <2>7 DEF StackOK
  <2>11. g # <<>>
    BY <2>10
  <2> QED BY <2>4, <2>5, <2>9, <2>10, <2>11, Zenon DEF StackOK
<1>23. ASSUME NEW m \in Modules, Process(m) PROVE StackOK(frames')
  <2>1. CASE ProcReads(m)
    BY <2>1, <1>3, Zenon DEF ProcReads
  <2>2. CASE ProcSends(m)
    BY <2>2, <1>3, Zenon DEF ProcSends
  <2>3. CASE ProcExits(m)
    BY <2>3, <1>3, Zenon DEF ProcExits
  <2> QED BY <1>23, <2>1, <2>2, <2>3, Zenon DEF Process
<1> QED BY <1>5, <1>6, <1>7, <1>8, <1>9, <1>11, <1>12, <1>13, <1>14, <1>15, <1>16, <1>17,
           <1>19, <1>20, <1>21, <1>22, <1>23
        DEF Next, Fvwm, Write, Wait, Command, Round

-----------------------------------------------------------------------------
(* Input, the command queue and the counters *)

LEMMA AppendInput ==
    ASSUME OtherTypes, NEW m \in Modules, NEW x \in Input
    PROVE  [inbox EXCEPT ![m] = Append(inbox[m], x)] \in [Modules -> Seq(Input)]
<1>1. inbox[m] \in Seq(Input) /\ inbox \in [Modules -> Seq(Input)]
  BY DEF OtherTypes
<1>2. Append(inbox[m], x) \in Seq(Input)
  BY <1>1, AppendFacts
<1> QED BY <1>1, <1>2

LEMMA UnlockType == Unlock \in Input /\ Quit \in Input
<1>1. <<"nop">> \in Seq(Ops)
  <2>1. "nop" \in Ops
    BY DEF Ops
  <2> QED BY <2>1
<1> QED BY <1>1 DEF Unlock, Quit, Input

(* Taking an input leaves sequences of inputs and yields a command. *)
LEMMA TakeOK ==
    ASSUME OtherTypes, NEW m \in Modules, inbox[m] # <<>>, TakeInput(m)
    PROVE  inbox' \in [Modules -> Seq(Input)] /\ Head(inbox[m]).cmd \in Seq(Ops)
<1>1. inbox[m] \in Seq(Input) /\ inbox \in [Modules -> Seq(Input)]
  BY DEF OtherTypes
<1>2. Tail(inbox[m]) \in Seq(Input) /\ Head(inbox[m]) \in Input
  BY <1>1, TailFacts
<1>3. inbox' = [inbox EXCEPT ![m] = Tail(inbox[m])]
  BY DEF TakeInput
<1> QED BY <1>1, <1>2, <1>3 DEF Input

LEMMA OtherStep ==
    ASSUME IInv, Next
    PROVE  OtherTypes'
<1>1. /\ StackOK(frames) /\ RecordTypes /\ StreamTypes /\ OtherTypes
      /\ Top \in Frames /\ FrameOK(Top)
  BY TopFacts DEF IInv
<1>2. CASE UNCHANGED <<inbox, running, cqueue, grabs, budget>>
  BY <1>1, <1>2 DEF OtherTypes
<1>3. CASE Write
  BY <1>2, <1>3 DEF Write, Broadcast, BroadcastEnds, FlushWrites, FlushEnds, FlushFails,
                    FlushTimeout, process
<1>4. CASE SyncEof \/ SyncTimeout
  BY <1>2, <1>4 DEF SyncEof, SyncTimeout, process
<1>5. CASE SyncReceive
  <2>1. /\ At("sync") /\ inbox[Top.mod] # <<>> /\ TakeInput(Top.mod)
        /\ UNCHANGED <<running, cqueue, grabs, budget>>
    BY <1>5 DEF SyncReceive
  <2>2. Top.mod \in Modules
    BY <1>1, <2>1 DEF FrameOK, At
  <2>3. inbox' \in [Modules -> Seq(Input)]
    BY <1>1, <2>1, <2>2, TakeOK
  <2> QED BY <1>1, <2>1, <2>3 DEF OtherTypes
<1>6. CASE CmdBroadcasts \/ CmdReplies \/ CmdKills \/ CmdWaits \/ CmdDoesNothing \/ CmdEnds
  BY <1>2, <1>6 DEF CmdBroadcasts, CmdReplies, CmdKills, CmdWaits, CmdDoesNothing, CmdEnds,
                    process
<1>7. CASE CmdStarts
  BY <1>1, <1>7 DEF CmdStarts, OtherTypes
<1>8. CASE CmdGrabs
  <2>1. grabs' \in Nat
    BY <1>1, <1>8 DEF CmdGrabs, OtherTypes
  <2> QED BY <1>1, <1>8, <2>1 DEF CmdGrabs, OtherTypes, process
<1>9. CASE SelectReturns \/ ScanWrites \/ ScanEnds \/ Cleanup
  BY <1>2, <1>9 DEF SelectReturns, ScanWrites, ScanEnds, Cleanup, process
<1>10. CASE ScanEof
  BY <1>2, <1>10 DEF ScanEof, process
<1>11. CASE ScanReads
  <2>1. PICK m \in Top.in : /\ Scanning(m) /\ inbox[m] # <<>> /\ TakeInput(m)
                            /\ cqueue' = Append(cqueue, [mod |-> m, cmd |-> Head(inbox[m]).cmd])
    BY <1>11 DEF ScanReads
  <2>2. m \in Modules
    BY <1>1, <2>1 DEF Scanning, RecordTypes
  <2>3. inbox' \in [Modules -> Seq(Input)] /\ Head(inbox[m]).cmd \in Seq(Ops)
    BY <1>1, <2>1, <2>2, TakeOK
  <2>4. [mod |-> m, cmd |-> Head(inbox[m]).cmd] \in Entry
    BY <2>2, <2>3, Numbers DEF Entry
  <2>5. cqueue' \in Seq(Entry)
    BY <1>1, <2>1, <2>4, AppendFacts DEF OtherTypes
  <2>6. UNCHANGED <<running, grabs, budget>>
    BY <1>11 DEF ScanReads
  <2> QED BY <1>1, <2>3, <2>5, <2>6 DEF OtherTypes
<1>12. CASE QueueExecutes
  <2>1. cqueue # <<>> /\ cqueue' = Tail(cqueue) /\ UNCHANGED <<inbox, running, grabs, budget>>
    BY <1>12 DEF QueueExecutes, process
  <2>2. cqueue' \in Seq(Entry)
    BY <1>1, <2>1, TailFacts DEF OtherTypes
  <2> QED BY <1>1, <2>1, <2>2 DEF OtherTypes
<1>13. CASE Event
  <2>1. /\ budget.events > 0 /\ budget' = [budget EXCEPT !.events = budget.events - 1]
        /\ UNCHANGED <<inbox, running, cqueue, grabs>>
    BY <1>13 DEF Event, process
  <2>2. budget' \in [sends : Nat, events : Nat]
    BY <1>1, <2>1 DEF OtherTypes
  <2> QED BY <1>1, <2>1, <2>2 DEF OtherTypes
<1>14. ASSUME NEW m \in Modules, Process(m) PROVE OtherTypes'
  <2>1. CASE ProcReads(m)
    <3>1. UNCHANGED <<running, cqueue, grabs, budget>>
      BY <2>1, Zenon DEF ProcReads
    <3>2. inbox' = inbox \/ inbox' = [inbox EXCEPT ![m] = Append(inbox[m], Unlock)]
      BY <2>1 DEF ProcReads
    <3>3. inbox' \in [Modules -> Seq(Input)]
      <4>1. [inbox EXCEPT ![m] = Append(inbox[m], Unlock)] \in [Modules -> Seq(Input)]
        BY <1>1, AppendInput, UnlockType, Zenon
      <4>2. inbox \in [Modules -> Seq(Input)]
        BY <1>1 DEF OtherTypes
      <4> QED BY <3>2, <4>1, <4>2, Zenon
    <3> QED BY <1>1, <3>1, <3>3 DEF OtherTypes
  <2>2. CASE ProcSends(m)
    <3>1. /\ UNCHANGED <<running, cqueue, grabs>>
          /\ budget' = [budget EXCEPT !.sends = budget.sends - 1]
          /\ budget.sends > 0
      BY <2>2 DEF ProcSends
    <3>2. PICK input \in Says : inbox' = [inbox EXCEPT ![m] = Append(inbox[m], input)]
      BY <2>2 DEF ProcSends
    <3>3. input \in Input
      <4>1. [cmd : Inputs, quit : Quits, unlock : {FALSE}] \subseteq Input
        BY Numbers, LinkAssumption DEF LinkAssumption, Input
      <4> QED BY <4>1, UnlockType DEF Says
    <3>4. inbox' \in [Modules -> Seq(Input)]
      BY <1>1, <3>2, <3>3, AppendInput
    <3>5. budget' \in [sends : Nat, events : Nat]
      BY <1>1, <3>1, SMTT(30) DEF OtherTypes
    <3> QED BY <1>1, <3>1, <3>4, <3>5 DEF OtherTypes
  <2>3. CASE ProcExits(m)
    <3>1. /\ UNCHANGED <<inbox, cqueue, grabs, budget>>
          /\ running' = [running EXCEPT ![m] = FALSE]
      BY <2>3, Zenon DEF ProcExits
    <3> QED BY <1>1, <3>1 DEF OtherTypes
  <2> QED BY <1>14, <2>1, <2>2, <2>3, Zenon DEF Process
<1> QED BY <1>3, <1>4, <1>5, <1>6, <1>7, <1>8, <1>9, <1>10, <1>11, <1>12, <1>13, <1>14
        DEF Next, Fvwm, Wait, Command, Round

-----------------------------------------------------------------------------
(* The invariant *)

LEMMA InitInv == ASSUME Init PROVE IInv
<1>1. RecordTypes
  <2>1. <<>> \in Seq(Modules)
    OBVIOUS
  <2> QED BY <2>1, Numbers DEF Init, RecordTypes
<1>2. FreedOnce
  BY Numbers DEF Init, FreedOnce
<1>3. StreamTypes
  BY Numbers DEF Init, StreamTypes
<1>4. StreamIntact
  BY Numbers DEF Init, StreamIntact, Consecutive
<1>5. OtherTypes
  BY Numbers DEF Init, OtherTypes
<1>6. StackOK(frames)
  <2>1. LoopFrame \in Frames /\ LoopFrame.kind = "loop"
    <3>1. 0 \in Nat /\ 0 \in 0 .. MaxModules /\ <<>> \in Seq(Ops)
      BY Numbers
    <3> QED BY <3>1, NewFrames
  <2> QED BY <2>1 DEF Init, StackOK, FrameOK
<1> QED BY <1>1, <1>2, <1>3, <1>4, <1>5, <1>6 DEF IInv

LEMMA NextInv == ASSUME IInv, [Next]_vars PROVE IInv'
<1>1. CASE Next
  <2>1. RecordTypes' /\ FreedOnce'
    BY <1>1, RecordsStep
  <2>2. StreamTypes' /\ StreamIntact'
    BY <1>1, StreamStep
  <2>3. OtherTypes'
    BY <1>1, OtherStep
  <2>4. StackOK(frames)'
    BY <1>1, FramesStep
  <2> QED BY <2>1, <2>2, <2>3, <2>4 DEF IInv
<1>2. CASE UNCHANGED vars
  <2>1. /\ UNCHANGED <<list, row, freed, started, queue, done, log, pipe, inbox, running, got>>
        /\ UNCHANGED <<cqueue, frames, grabs, budget>>
    BY <1>2 DEF vars, records, queues, process
  <2>2. RecordTypes' /\ FreedOnce'
    BY <2>1 DEF IInv, RecordTypes, FreedOnce
  <2>3. StreamTypes' /\ StreamIntact'
    BY <2>1 DEF IInv, StreamTypes, StreamIntact
  <2>4. OtherTypes'
    BY <2>1 DEF IInv, OtherTypes
  <2>5. StackOK(frames)'
    BY <2>1 DEF IInv
  <2> QED BY <2>2, <2>3, <2>4, <2>5 DEF IInv
<1> QED BY <1>1, <1>2

(* IInv holds in every state: the types, the intact stream and the places of the
   modules' records support each other. *)
THEOREM InvariantHolds == Spec => []IInv
<1>1. Init => IInv
  BY InitInv
<1>2. IInv /\ [Next]_vars => IInv'
  BY NextInv
<1> QED BY <1>1, <1>2, PTL DEF Spec

(* The variables have their types, for any modules, masks and commands. *)
THEOREM TypesHold == Spec => []TypeOK
<1>1. IInv => TypeOK
  BY DEF IInv, RecordTypes, StreamTypes, OtherTypes, StackOK, TypeOK
<1> QED BY <1>1, InvariantHolds, PTL

(* Whatever modules do, and however deep the activations that write to the same
   module are nested, each module reads an intact prefix of what it was sent:
   PositiveWrite and FlushMessageQueue neither lose, repeat, reorder nor tear a
   message. *)
THEOREM StreamHolds == Spec => []StreamIntact
<1>1. IInv => StreamIntact
  BY DEF IInv
<1> QED BY <1>1, InvariantHolds, PTL

(* module_kill and module_cleanup free the record of each module that is started
   at most once, although modules are killed from nested activations. *)
THEOREM FreedOnceHolds == Spec => []FreedOnce
<1>1. IInv => FreedOnce
  BY DEF IInv
<1> QED BY <1>1, InvariantHolds, PTL

-----------------------------------------------------------------------------
(* The activations: whom a broadcast reaches, which records activations use,
   who waits for which answer, that ModuleLink implements MessageChannel, and
   where the loops over the modules stand. *)

(* What a step makes of the stack, for a set P of stacks: P is closed under what
   the actions other than Broadcast and CmdReplies may do ... *)
Closed(P) ==
    /\ Depth > 1 => Callers \in P
    /\ Top.rest # <<>> /\ At("cmd") =>
          /\ Rest \in P
          /\ \A k \in Kinds : Append(Rest, BroadcastFrame(k)) \in P
          /\ Head(Top.rest) = "wait" => Append(Rest, LoopFrame) \in P
    /\ \A f \in Frames : f.kind = "loop" /\ At("loop") /\ f.mod \in {Top.mod, 0}
                            /\ f.rest \in {Top.rest, <<>>} =>
          /\ Become(f) \in P
          /\ \A m \in list : Append(Become(f), FlushFrame(m)) \in P
    /\ \A cmd \in EventInputs : At("loop") =>
          /\ Append(frames, CmdFrame(0, cmd)) \in P
          /\ Depth > 1 => Append(Callers, CmdFrame(0, cmd)) \in P
    /\ At("loop") /\ cqueue # <<>> =>
          Append(frames, CmdFrame(Head(cqueue).mod, Head(cqueue).cmd)) \in P
    /\ At("sync") /\ inbox[Top.mod] # <<>> =>
          Append(frames, CmdFrame(Top.mod, Head(inbox[Top.mod]).cmd)) \in P

(* The actions that accept messages *)
Accepting == Broadcast \/ CmdReplies

LEMMA QuietStack ==
    ASSUME IInv, Next, ~Accepting, NEW P, frames \in P, Closed(P)
    PROVE  frames' \in P
<1>1. /\ StackOK(frames) /\ RecordTypes /\ StreamTypes /\ OtherTypes
      /\ Top \in Frames /\ FrameOK(Top) /\ (~At("loop") => Depth > 1)
  BY TopFacts DEF IInv
<1>2. CASE UNCHANGED frames
  BY <1>2
<1>3. CASE ~At("loop") /\ Return
  BY <1>1, <1>3 DEF Return, Closed
<1>4. CASE BroadcastEnds \/ FlushEnds \/ FlushFails \/ FlushTimeout \/ CmdEnds
           \/ SyncEof \/ SyncTimeout
  BY <1>3, <1>4 DEF BroadcastEnds, FlushEnds, FlushFails, FlushTimeout, CmdEnds, SyncEof,
                    SyncTimeout, At
<1>5. CASE FlushWrites
  BY <1>2, <1>5, Zenon DEF FlushWrites
<1>6. CASE SyncReceive
  <2>1. /\ At("sync") /\ inbox[Top.mod] # <<>>
        /\ Return \/ Call(CmdFrame(Top.mod, Head(inbox[Top.mod]).cmd))
    BY <1>6, Zenon DEF SyncReceive
  <2>2. CASE Return
    BY <2>1, <2>2, <1>3 DEF At
  <2>3. CASE Call(CmdFrame(Top.mod, Head(inbox[Top.mod]).cmd))
    BY <2>1, <2>3 DEF Closed, Call
  <2> QED BY <2>1, <2>2, <2>3
<1>7. CASE CmdBroadcasts
  BY <1>7 DEF CmdBroadcasts, Doing, Closed
<1>8. CASE CmdKills \/ CmdStarts \/ CmdGrabs \/ CmdDoesNothing
  BY <1>8 DEF CmdKills, CmdStarts, CmdGrabs, CmdDoesNothing, Doing, Closed
<1>9. CASE CmdWaits
  BY <1>9 DEF CmdWaits, Doing, Closed
<1>10. CASE Event
  BY <1>10 DEF Event, InLoop, Call, Closed
<1>11. ASSUME At("loop"), NEW i \in 0 .. MaxModules,
              NEW S \in SUBSET Modules, NEW T \in SUBSET Modules
       PROVE  LET f == [Top EXCEPT !.pc = "scan", !.itr = i, !.in = S, !.out = T]
                  g == [Top EXCEPT !.itr = i]
                  h == [Top EXCEPT !.pc = "queue"]
              IN  /\ f \in Frames /\ f.kind = "loop" /\ f.mod = Top.mod /\ f.rest = Top.rest
                  /\ g \in Frames /\ g.kind = "loop" /\ g.mod = Top.mod /\ g.rest = Top.rest
                  /\ h \in Frames /\ h.kind = "loop" /\ h.mod = Top.mod /\ h.rest = Top.rest
  BY <1>1, <1>11 DEF Frames, At
<1>12. ItrNext(Top.itr) \in 0 .. MaxModules /\ ItrFirst \in 0 .. MaxModules
       /\ \A m : ItrNext(m) \in 0 .. MaxModules
  BY <1>1, IteratorType
<1>13. CASE SelectReturns
  <2>1. Readable \in SUBSET Modules /\ Writable \in SUBSET Modules
    BY <1>1 DEF RecordTypes, Readable, Writable
  <2> DEFINE f == [Top EXCEPT !.pc = "scan", !.itr = ItrFirst,
                              !.in = Readable, !.out = Writable]
  <2>2. At("loop") /\ frames' = Become(f)
    BY <1>13 DEF SelectReturns, InLoop
  <2>3. f \in Frames /\ f.kind = "loop" /\ f.mod = Top.mod /\ f.rest = Top.rest
    BY <1>1, <1>12, <2>1, <2>2 DEF Frames, At
  <2> HIDE DEF f
  <2> QED BY <2>2, <2>3 DEF Closed
<1>14. ASSUME NEW m \in list, At("loop"), ScanNext(m) PROVE frames' \in P
  <2> DEFINE g == [Top EXCEPT !.itr = ItrNext(m)]
  <2>1. g \in Frames /\ g.kind = "loop" /\ g.mod = Top.mod /\ g.rest = Top.rest
    <3>1. {} \in SUBSET Modules
      OBVIOUS
    <3> QED BY <3>1, <1>11, <1>12, <1>14
  <2>2. frames' = Become(g) \/ frames' = Append(Become(g), FlushFrame(m))
    BY <1>14 DEF ScanNext
  <2> HIDE DEF g
  <2> QED BY <2>1, <2>2, <1>14 DEF Closed
<1>15. CASE ScanReads \/ ScanEof \/ ScanWrites
  BY <1>14, <1>15, Zenon DEF ScanReads, ScanEof, ScanWrites, Scanning, InLoop
<1>16. CASE ScanEnds
  <2> DEFINE h == [Top EXCEPT !.pc = "queue"]
  <2>1. At("loop") /\ frames' = Become(h)
    BY <1>16 DEF ScanEnds, InLoop
  <2>2. h \in Frames /\ h.kind = "loop" /\ h.mod = Top.mod /\ h.rest = Top.rest
    <3>1. {} \in SUBSET Modules
      OBVIOUS
    <3> QED BY <2>1, <3>1, <1>11, <1>12
  <2> HIDE DEF h
  <2> QED BY <2>1, <2>2 DEF Closed
<1>17. CASE QueueExecutes
  BY <1>17 DEF QueueExecutes, InLoop, Call, Closed
<1>18. CASE Cleanup
  <2>1. At("loop") /\ frames' = Become(LoopFrame)
    BY <1>18 DEF Cleanup, InLoop
  <2>2. LoopFrame \in Frames /\ LoopFrame.kind = "loop" /\ LoopFrame.mod = 0
    <3>1. 0 \in Nat /\ 0 \in 0 .. MaxModules /\ <<>> \in Seq(Ops)
      BY Numbers
    <3> QED BY <3>1, NewFrames
  <2>3. LoopFrame.rest = <<>>
    BY DEF LoopFrame, Frame
  <2> HIDE DEF LoopFrame
  <2> QED BY <2>1, <2>2, <2>3 DEF Closed
<1>19. ASSUME NEW m \in Modules, Process(m) PROVE frames' \in P
  BY <1>19, <1>2, Zenon DEF Process, ProcReads, ProcSends, ProcExits
<1> QED BY <1>4, <1>5, <1>6, <1>7, <1>8, <1>9, <1>10, <1>13, <1>15, <1>16, <1>17, <1>18, <1>19
        DEF Next, Fvwm, Write, Wait, Command, Round, Accepting

(* ... and what an activation goes on with when it accepts a message for m. *)
BcastNext == Become([Top EXCEPT !.itr = ItrNext(Top.itr), !.seen = Top.seen \cup {Top.itr}])

LEMMA AcceptStack ==
    ASSUME IInv, Accepting
    PROVE  \/ /\ At("cmd") /\ Top.rest # <<>> /\ Head(Top.rest) = Reply
              /\ Top.mod = 0 /\ frames' = Rest /\ UNCHANGED queues
           \/ /\ At("cmd") /\ Top.rest # <<>> /\ Head(Top.rest) = Reply
              /\ Top.mod \in Modules
              /\ PositiveWrite(Top.mod, Reply, Append(Rest, FlushFrame(Top.mod)))
           \/ /\ At("bcast") /\ Top.itr \in list /\ Top.itr \in Modules
              /\ \/ frames' = BcastNext /\ UNCHANGED queues
                 \/ PositiveWrite(Top.itr, Top.msg, BcastNext)
                 \/ PositiveWrite(Top.itr, Top.msg, Append(BcastNext, FlushFrame(Top.itr)))
<1>1. RecordTypes /\ Top \in Frames
  BY TopFacts DEF IInv
<1>2. CASE Broadcast
  BY <1>1, <1>2 DEF Broadcast, RecordTypes, BcastNext
<1>3. CASE CmdReplies
  <2>1. Top.mod # 0 => Top.mod \in Modules
    BY <1>1, Numbers DEF Frames
  <2> QED BY <2>1, <1>3 DEF CmdReplies, Doing
<1> QED BY <1>2, <1>3 DEF Accepting

-----------------------------------------------------------------------------
(* Whom a broadcast reaches *)

(* A broadcast that passed nobody by *)
Sound(f) == f.kind = "bcast" =>
               /\ f.no <= started
               /\ \A m \in list : m <= f.no /\ m \notin f.seen => m <= f.itr
SoundFrames == {f \in Frames : Sound(f)}

(* The iterator does not step over a module. *)
LEMMA NextOfGreatest ==
    ASSUME RecordTypes, NEW m, NEW x \in list, x < m
    PROVE  x <= NextOf(m)
<1> DEFINE below == {y \in list : y < m}
<1>1. x \in below /\ below \subseteq 0 .. MaxModules /\ MaxModules \in Nat
  <2>1. below \subseteq 1 .. MaxModules
    BY Numbers DEF RecordTypes
  <2> QED BY <2>1, Numbers
<1>2. below # {}
  BY <1>1
<1>3. NextOf(m) = CHOOSE z \in below : \A y \in below : y <= z
  BY <1>2 DEF NextOf
<1> HIDE DEF below
<1>4. \E z \in below : \A y \in below : y <= z
  BY <1>1, <1>2, GreatestNat
<1>5. \A y \in below : y <= CHOOSE z \in below : \A v \in below : v <= z
  BY <1>4, Zenon
<1> QED BY <1>1, <1>3, <1>5, Zenon

LEMMA Stacks ==
    ASSUME IInv, NEW B, frames \in Seq(B)
    PROVE  /\ Top \in B /\ (Depth > 1 => Callers \in Seq(B))
           /\ \A f \in B : Become(f) \in Seq(B)
           /\ \A fr \in Seq(B), f \in B : Append(fr, f) \in Seq(B)
<1>1. frames # <<>> /\ Depth = Len(frames) /\ Depth \in Nat /\ Depth > 0 /\ Depth \in DOMAIN frames
  BY DEF IInv, StackOK, Depth
<1>2. Top \in B
  BY <1>1 DEF Top
<1>3. Callers \in Seq(B)
  BY <1>1, FrontFacts DEF Callers
<1>4. \A f \in B : Become(f) \in Seq(B)
  BY <1>1, LastFacts DEF Become
<1>5. \A fr \in Seq(B), f \in B : Append(fr, f) \in Seq(B)
  OBVIOUS
<1> QED BY <1>2, <1>3, <1>4, <1>5

LEMMA SoundNew ==
    ASSUME RecordTypes
    PROVE  /\ \A f \in Frames : f.kind # "bcast" => f \in SoundFrames
           /\ LoopFrame \in SoundFrames
           /\ \A k \in Kinds : BroadcastFrame(k) \in SoundFrames
           /\ \A m \in 0 .. MaxModules : FlushFrame(m) \in SoundFrames
           /\ \A m \in 0 .. MaxModules, no \in Nat : SyncFrame(m, no) \in SoundFrames
           /\ \A m \in 0 .. MaxModules, cmd \in Seq(Ops) : CmdFrame(m, cmd) \in SoundFrames
<1>1. \A f \in Frames : f.kind # "bcast" => f \in SoundFrames
  BY DEF SoundFrames, Sound
<1>2. 0 \in Nat /\ 0 \in 0 .. MaxModules /\ <<>> \in Seq(Ops)
  BY Numbers
<1>3. LoopFrame \in SoundFrames
  BY <1>1, <1>2, NewFrames
<1>4. ASSUME NEW m \in 0 .. MaxModules, NEW no \in Nat, NEW cmd \in Seq(Ops)
      PROVE  /\ FlushFrame(m) \in SoundFrames /\ SyncFrame(m, no) \in SoundFrames
             /\ CmdFrame(m, cmd) \in SoundFrames
  <2>1. /\ FlushFrame(m) \in Frames /\ SyncFrame(m, no) \in Frames /\ CmdFrame(m, cmd) \in Frames
        /\ CmdFrame(m, cmd).kind = "cmd"
    BY NewFrames
  <2>2. FlushFrame(m).kind = "flush" /\ SyncFrame(m, no).kind = "sync"
    BY DEF FlushFrame, SyncFrame, Frame
  <2> HIDE DEF FlushFrame, SyncFrame, CmdFrame
  <2> QED BY <1>1, <2>1, <2>2
<1>5. ASSUME NEW k \in Kinds PROVE BroadcastFrame(k) \in SoundFrames
  <2> DEFINE f == BroadcastFrame(k)
  <2>1. started \in Nat
    BY Numbers DEF RecordTypes
  <2>2. Frame("bcast", 0) \in Frames
    BY <1>2, Numbers DEF Frame, Frames
  <2>3. f \in Frames /\ f.no = started /\ f.itr = ItrFirst
    <3>1. ItrFirst \in 0 .. MaxModules
      BY IteratorType
    <3> QED BY <2>1, <2>2, <3>1 DEF BroadcastFrame, Frames
  <2>4. ASSUME NEW x \in list, x <= started PROVE x <= ItrFirst
    <3>1. x < started + 1
      BY <2>1, <2>4, Numbers DEF RecordTypes
    <3> QED BY <3>1, NextOfGreatest DEF ItrFirst
  <2> HIDE DEF f
  <2>5. f \in SoundFrames
    BY <2>1, <2>3, <2>4 DEF SoundFrames, Sound
  <2> QED BY <2>5 DEF f
<1> QED BY <1>1, <1>2, <1>3, <1>4, <1>5

(* Broadcasts stay sound when modules are killed or started. *)
LEMMA SoundLasts ==
    ASSUME IInv, Next
    PROVE  SoundFrames \subseteq SoundFrames'
<1>1. RecordTypes /\ RecordTypes'
  BY RecordsStep DEF IInv
<1>2. \/ started' = started /\ list' \subseteq list
      \/ started' = started + 1 /\ list' \subseteq list \cup {started'}
  <2>1. CASE CmdStarts
    BY <2>1 DEF CmdStarts
  <2>2. CASE ~CmdStarts
    <3>1. \A S : Kill(S) => list' \subseteq list
      BY DEF Kill
    <3>2. \A m : TakeInput(m) => list' \subseteq list
      BY <3>1 DEF TakeInput
    <3> USE DEF records
    <3>3. CASE Write
      BY <3>1, <3>3 DEF Write, Broadcast, BroadcastEnds, FlushWrites, FlushEnds, FlushFails,
                        FlushTimeout
    <3>4. CASE Wait
      BY <3>1, <3>2, <3>4 DEF Wait, SyncReceive, SyncEof, SyncTimeout
    <3>5. CASE Command
      BY <2>2, <3>1, <3>5 DEF Command, CmdBroadcasts, CmdReplies, CmdKills, CmdWaits, CmdGrabs,
                         CmdDoesNothing, CmdEnds
    <3>6. CASE Round
      BY <3>1, <3>2, <3>6 DEF Round, SelectReturns, ScanReads, ScanEof, ScanWrites, ScanEnds,
                         QueueExecutes, Cleanup
    <3>7. CASE Event
      BY <3>7 DEF Event
    <3>8. ASSUME NEW m \in Modules, Process(m) PROVE started' = started /\ list' = list
      BY <3>8, Zenon DEF Process, ProcReads, ProcSends, ProcExits
    <3> QED BY <3>3, <3>4, <3>5, <3>6, <3>7, <3>8 DEF Next, Fvwm
  <2> QED BY <2>1, <2>2
<1>3. ASSUME NEW f \in SoundFrames PROVE f \in SoundFrames'
  <2>1. f \in Frames /\ f.no \in Nat /\ started \in Nat
    BY <1>1, Numbers DEF SoundFrames, Frames, RecordTypes
  <2>2. f.kind = "bcast" => f.no <= started
    BY DEF SoundFrames, Sound
  <2>3. f.kind = "bcast" => f.no <= started' /\ ~(started + 1 <= f.no)
    BY <1>2, <2>1, <2>2
  <2> QED BY <1>2, <2>1, <2>3, SMTT(30) DEF SoundFrames, Sound
<1> QED BY <1>3

LEMMA SoundStep ==
    ASSUME IInv, Next, frames \in Seq(SoundFrames)
    PROVE  frames' \in Seq(SoundFrames)
<1> DEFINE B == SoundFrames
<1>1. /\ StackOK(frames) /\ RecordTypes /\ StreamTypes /\ OtherTypes
      /\ Top \in Frames /\ FrameOK(Top) /\ Top.mod \in 0 .. MaxModules
  BY TopFacts DEF IInv, Frames
<1>2. /\ Top \in B /\ (Depth > 1 => Callers \in Seq(B))
      /\ \A f \in B : Become(f) \in Seq(B)
      /\ \A fr \in Seq(B), f \in B : Append(fr, f) \in Seq(B)
  BY Stacks
<1>3. /\ \A f \in Frames : f.kind # "bcast" => f \in B
      /\ LoopFrame \in B
      /\ \A k \in Kinds : BroadcastFrame(k) \in B
      /\ \A m \in 0 .. MaxModules : FlushFrame(m) \in B
      /\ \A m \in 0 .. MaxModules, no \in Nat : SyncFrame(m, no) \in B
      /\ \A m \in 0 .. MaxModules, cmd \in Seq(Ops) : CmdFrame(m, cmd) \in B
  BY <1>1, SoundNew
<1>4. 0 \in 0 .. MaxModules /\ list \subseteq 0 .. MaxModules /\ Modules \subseteq 0 .. MaxModules
  BY <1>1, Numbers DEF RecordTypes
<1>5. At("cmd") /\ Top.rest # <<>> => Rest \in Seq(B)
  <2> SUFFICES ASSUME At("cmd"), Top.rest # <<>> PROVE Rest \in Seq(B)
    OBVIOUS
  <2>1. Tail(Top.rest) \in Seq(Ops)
    BY <1>1, TailFacts DEF Frames
  <2> DEFINE f == [Top EXCEPT !.rest = Tail(Top.rest)]
  <2>2. f \in Frames /\ f.kind # "bcast"
    BY <1>1, <2>1 DEF Frames, At
  <2> HIDE DEF f, B
  <2> QED BY <1>2, <1>3, <2>2 DEF Rest, f
<1> SUFFICES frames' \in Seq(B)
  OBVIOUS
<1> HIDE DEF B
<1>6. CASE Accepting
  <2>1. ASSUME NEW fs \in Seq(B), NEW m \in Modules, NEW k, PositiveWrite(m, k, fs)
        PROVE  frames' \in Seq(B)
    <3>1. \/ frames' = fs
          \/ frames' = Append(Append(fs, SyncFrame(m, Len(log[m]) + 1)), FlushFrame(m))
      BY <2>1 DEF PositiveWrite
    <3>2. Len(log[m]) + 1 \in Nat
      BY <1>1 DEF StreamTypes
    <3> QED BY <1>2, <1>3, <1>4, <3>1, <3>2
  <2>2. ASSUME At("bcast"), Top.itr \in list PROVE BcastNext \in Seq(B)
    <3> DEFINE f == [Top EXCEPT !.itr = ItrNext(Top.itr), !.seen = Top.seen \cup {Top.itr}]
    <3>1. /\ f \in Frames /\ f.no = Top.no /\ f.itr = ItrNext(Top.itr)
          /\ f.seen = Top.seen \cup {Top.itr} /\ f.kind = "bcast"
      <4>1. ItrNext(Top.itr) \in 0 .. MaxModules
        BY <1>1, IteratorType
      <4>2. Top.itr \in Modules
        BY <1>1, <2>2 DEF RecordTypes
      <4> QED BY <1>1, <2>2, <4>1, <4>2 DEF Frames, At
    <3>2. ASSUME NEW x \in list, x <= Top.no, x \notin Top.seen \cup {Top.itr}
          PROVE  x <= ItrNext(Top.itr)
      <4>1. x <= Top.itr
        BY <1>2, <2>2, <3>2 DEF B, SoundFrames, Sound, At
      <4>2. x < Top.itr
        BY <3>2, <4>1, <2>2, <1>4
      <4> QED BY <1>1, <4>2, NextOfGreatest DEF ItrNext
    <3>3. Top.no <= started
      BY <1>2, <2>2 DEF B, SoundFrames, Sound, At
    <3> HIDE DEF f
    <3>4. f \in B
      BY <3>1, <3>2, <3>3 DEF B, SoundFrames, Sound
    <3> QED BY <1>2, <3>4 DEF BcastNext, f
  <2>3. ASSUME NEW fs \in Seq(B), NEW m \in Modules PROVE Append(fs, FlushFrame(m)) \in Seq(B)
    BY <1>2, <1>3, <1>4
  <2> QED BY <1>5, <1>6, <2>1, <2>2, <2>3, AcceptStack
<1>7. CASE ~Accepting
  <2>1. ASSUME NEW cmd \in EventInputs PROVE CmdFrame(0, cmd) \in B
    <3>1. cmd \in Seq(Ops)
      BY Numbers
    <3> QED BY <1>3, <1>4, <3>1
  <2>2. cqueue # <<>> => CmdFrame(Head(cqueue).mod, Head(cqueue).cmd) \in B
    <3> SUFFICES ASSUME cqueue # <<>> PROVE CmdFrame(Head(cqueue).mod, Head(cqueue).cmd) \in B
      OBVIOUS
    <3>1. Head(cqueue) \in Entry
      BY <1>1, TailFacts DEF OtherTypes
    <3> QED BY <1>3, <3>1 DEF Entry
  <2>3. At("sync") /\ inbox[Top.mod] # <<>> => CmdFrame(Top.mod, Head(inbox[Top.mod]).cmd) \in B
    <3> SUFFICES ASSUME At("sync"), inbox[Top.mod] # <<>>
                 PROVE  CmdFrame(Top.mod, Head(inbox[Top.mod]).cmd) \in B
      OBVIOUS
    <3>1. Top.mod \in Modules
      BY <1>1 DEF FrameOK, At
    <3>2. inbox[Top.mod] \in Seq(Input)
      BY <1>1, <3>1 DEF OtherTypes
    <3>3. Head(inbox[Top.mod]) \in Input
      BY <3>2, TailFacts
    <3> QED BY <1>1, <1>3, <3>3 DEF Input
  <2>4. \A f \in Frames : f.kind = "loop" => f \in B
    BY <1>3
  <2>5. frames \in Seq(B)
    BY DEF B
  <2> DEFINE P == Seq(B)
  <2>6. Closed(P)
    <3> HIDE DEF P
    <3>1. /\ (Depth > 1 => Callers \in P) /\ frames \in P
          /\ \A f \in B : Become(f) \in P
          /\ \A fr \in P, f \in B : Append(fr, f) \in P
          /\ (At("cmd") /\ Top.rest # <<>> => Rest \in P)
      BY <1>2, <1>5, <2>5 DEF P
    <3> QED BY <3>1, <1>3, <1>4, <2>1, <2>2, <2>3, <2>4 DEF Closed
  <2> HIDE DEF P
  <2>7. frames' \in P
    BY <1>7, <2>5, <2>6, QuietStack DEF P
  <2> QED BY <2>7 DEF P
<1> QED BY <1>6, <1>7

(* However modules are killed and started in the middle of a broadcast, it passes
   nobody by who was on the list when it began and still is: the iterator moves on
   before PositiveWrite executes what the module answers, and a module that is
   taken off the list is never one it has yet to visit. *)
THEOREM NobodySkippedHolds == Spec => []NobodySkipped
<1> DEFINE SInv == IInv /\ frames \in Seq(SoundFrames)
<1>1. Init => SInv
  <2> SUFFICES ASSUME Init PROVE SInv
    OBVIOUS
  <2>1. IInv
    BY InitInv
  <2>2. LoopFrame \in SoundFrames
    BY <2>1, SoundNew DEF IInv
  <2> QED BY <2>1, <2>2 DEF Init
<1>2. SInv /\ [Next]_vars => SInv'
  <2> SUFFICES ASSUME SInv, [Next]_vars PROVE SInv'
    OBVIOUS
  <2>1. IInv'
    BY NextInv
  <2>2. CASE Next
    <3>1. frames' \in Seq(SoundFrames) /\ SoundFrames \subseteq SoundFrames'
      BY <2>2, SoundStep, SoundLasts
    <3> HIDE DEF SoundFrames
    <3>2. \A B, C : B \subseteq C => Seq(B) \subseteq Seq(C)
      OBVIOUS
    <3> QED BY <2>1, <3>1, <3>2
  <2>3. CASE UNCHANGED vars
    BY <2>1, <2>3 DEF vars, records, SoundFrames, Sound
  <2> QED BY <2>2, <2>3
<1>3. SInv => NobodySkipped
  <2> SUFFICES ASSUME SInv, NEW d \in DOMAIN frames, frames[d].kind = "bcast"
               PROVE  \A m \in list : m <= frames[d].no /\ m \notin frames[d].seen
                                        => m <= frames[d].itr
    BY DEF NobodySkipped
  <2>1. frames[d] \in SoundFrames
    OBVIOUS
  <2> QED BY <2>1 DEF SoundFrames, Sound
<1> QED BY <1>1, <1>2, <1>3, PTL DEF Spec

-----------------------------------------------------------------------------
(* Which records activations use.  The loop of Wait frees modules while the
   activations below it go on, so a command of a module that runs Wait is left out
   here: with <<"wait">> in Inputs and a module that locks on send, TLC finds
   PositiveWrite with a record that is freed.  Commands of the user may wait. *)

NoWait(cmd) == \A i \in DOMAIN cmd : cmd[i] # "wait"
ModulesNeverWait == \A cmd \in Inputs : NoWait(cmd)

(* Activations of the user: the event loop and the commands bound to events *)
User(f) == f.kind \in {"loop", "cmd"} /\ f.mod = 0

(* An activation that may go on: the record it uses is not freed. *)
Good(f) ==
    /\ f.mod \in 0 .. started
    /\ f.kind = "loop" => f.mod = 0
    /\ f.mod # 0 => NoWait(f.rest)
    /\ f.kind \in {"sync", "flush"} => f.mod # 0
    /\ f.kind \in {"sync", "flush"} \/ Needs(f.rest) => f.mod \notin freed
GoodFrames == {f \in Frames : Good(f)}

(* The event loop runs only inside of activations of the user. *)
Layered(fr) == \A d, e \in DOMAIN fr : d < e /\ User(fr[e]) => User(fr[d])
GoodStacks == {fr \in Seq(GoodFrames) : Layered(fr)}

GoodEntries == {x \in Entry : /\ x.mod \in 1 .. started /\ NoWait(x.cmd)
                              /\ Needs(x.cmd) => x.mod \notin freed}
GoodInputs == {x \in Input : NoWait(x.cmd)}

LogGood == \A m \in Modules : m > started => log[m] = <<>>

GInv == /\ IInv
        /\ frames \in GoodStacks
        /\ cqueue \in Seq(GoodEntries)
        /\ inbox \in [Modules -> Seq(GoodInputs)]
        /\ LogGood

LEMMA LayeredPush ==
    ASSUME NEW fr \in GoodStacks, fr # <<>>, NEW f \in GoodFrames,
           User(f) => User(fr[Len(fr)])
    PROVE  Append(fr, f) \in GoodStacks
<1> DEFINE n == Len(fr)
           g == Append(fr, f)
<1>1. fr \in Seq(GoodFrames) /\ Layered(fr)
  BY DEF GoodStacks
<1>2. /\ g \in Seq(GoodFrames) /\ DOMAIN g = 1 .. n + 1 /\ g[n + 1] = f
      /\ \A d \in 1 .. n : g[d] = fr[d]
      /\ n \in Nat /\ n > 0 /\ DOMAIN fr = 1 .. n
  BY <1>1, AppendFacts
<1>3. User(f) => User(fr[n])
  OBVIOUS
<1> HIDE DEF g, n
<1>4. ASSUME NEW d \in DOMAIN g, NEW e \in DOMAIN g, d < e, User(g[e])
      PROVE  User(g[d])
  <2>1. d \in 1 .. n /\ e \in 1 .. n + 1 /\ n \in 1 .. n
    BY <1>2, <1>4
  <2>2. CASE e = n + 1
    <3>1. User(fr[n])
      BY <1>2, <1>3, <1>4, <2>2
    <3>2. CASE d = n
      BY <1>2, <2>1, <3>1, <3>2
    <3>3. CASE d # n
      <4>1. d < n
        BY <2>1, <3>3
      <4>2. User(fr[d])
        BY <1>1, <1>2, <2>1, <3>1, <4>1 DEF Layered
      <4> QED BY <4>2, <1>2, <2>1
    <3> QED BY <3>2, <3>3
  <2>3. CASE e # n + 1
    <3>1. e \in 1 .. n
      BY <1>2, <2>1, <2>3
    <3>2. User(fr[d])
      BY <1>1, <1>2, <1>4, <2>1, <3>1 DEF Layered
    <3> QED BY <3>2, <1>2, <2>1
  <2> QED BY <2>2, <2>3
<1>5. Layered(g)
  BY <1>4, Zenon DEF Layered
<1> QED BY <1>2, <1>5 DEF GoodStacks, g

LEMMA LayeredPop ==
    ASSUME NEW fr \in GoodStacks, fr # <<>>
    PROVE  SubSeq(fr, 1, Len(fr) - 1) \in GoodStacks
<1> DEFINE g == SubSeq(fr, 1, Len(fr) - 1)
<1>1. fr \in Seq(GoodFrames) /\ Layered(fr)
  BY DEF GoodStacks
<1>2. /\ g \in Seq(GoodFrames) /\ DOMAIN g = 1 .. Len(fr) - 1
      /\ \A d \in 1 .. Len(fr) - 1 : g[d] = fr[d]
      /\ DOMAIN fr = 1 .. Len(fr) /\ Len(fr) \in Nat
  BY <1>1, FrontFacts
<1> HIDE DEF g
<1>3. \A d \in DOMAIN g : d \in DOMAIN fr /\ g[d] = fr[d]
  BY <1>2
<1>4. Layered(g)
  BY <1>1, <1>3 DEF Layered
<1> QED BY <1>2, <1>4 DEF GoodStacks, g

LEMMA LayeredBecome ==
    ASSUME NEW fr \in GoodStacks, fr # <<>>, NEW f \in GoodFrames,
           User(f) <=> User(fr[Len(fr)])
    PROVE  /\ [fr EXCEPT ![Len(fr)] = f] \in GoodStacks
           /\ [fr EXCEPT ![Len(fr)] = f] # <<>>
           /\ Len([fr EXCEPT ![Len(fr)] = f]) = Len(fr)
           /\ [fr EXCEPT ![Len(fr)] = f][Len(fr)] = f
<1> DEFINE n == Len(fr)
           g == [fr EXCEPT ![n] = f]
<1>1. fr \in Seq(GoodFrames) /\ Layered(fr)
  BY DEF GoodStacks
<1>2. /\ g \in Seq(GoodFrames) /\ Len(g) = n /\ DOMAIN g = 1 .. n /\ g[n] = f
      /\ \A d \in 1 .. n - 1 : g[d] = fr[d]
      /\ DOMAIN fr = 1 .. n /\ n \in Nat /\ n > 0
  BY <1>1, LastFacts
<1>3. User(f) <=> User(fr[n])
  OBVIOUS
<1> HIDE DEF g, n
<1>4. \A d \in DOMAIN g : d \in DOMAIN fr /\ (User(g[d]) <=> User(fr[d]))
  <2> SUFFICES ASSUME NEW d \in 1 .. n PROVE User(g[d]) <=> User(fr[d])
    BY <1>2
  <2>1. CASE d = n
    BY <1>2, <1>3, <2>1
  <2>2. CASE d # n
    <3>1. g[d] = fr[d]
      BY <1>2, <2>2
    <3> QED BY <3>1
  <2> QED BY <2>1, <2>2
<1>5. Layered(g)
  BY <1>1, <1>4 DEF Layered
<1>6. g # <<>>
  BY <1>2
<1> QED BY <1>2, <1>5, <1>6 DEF GoodStacks, g, n

(* The stack of a state of GInv *)
LEMMA GoodTop ==
    ASSUME GInv
    PROVE  /\ Top \in GoodFrames /\ Top \in Frames /\ Good(Top)
           /\ Depth \in Nat /\ Depth > 0 /\ Depth = Len(frames) /\ frames # <<>>
           /\ ~At("loop") => Depth > 1
           /\ Depth > 1 => /\ Callers \in GoodStacks /\ Callers # <<>>
                           /\ User(Top) => User(Callers[Len(Callers)])
           /\ \A f \in GoodFrames : (User(f) <=> User(Top)) =>
                 /\ Become(f) \in GoodStacks /\ Become(f) # <<>>
                 /\ Become(f)[Len(Become(f))] = f
           /\ \A f \in GoodFrames : (User(f) => User(Top)) => Append(frames, f) \in GoodStacks
           /\ User(Top) => \A d \in DOMAIN frames : User(frames[d])
<1>1. StackOK(frames) /\ frames \in GoodStacks
  BY DEF GInv, IInv
<1>2. /\ frames # <<>> /\ Depth = Len(frames) /\ Depth \in Nat /\ Depth > 0
      /\ frames \in Seq(GoodFrames) /\ Layered(frames)
      /\ DOMAIN frames = 1 .. Depth /\ Top = frames[Len(frames)]
      /\ ~At("loop") => Depth > 1
  BY <1>1, TopFacts DEF StackOK, Depth, GoodStacks, Top
<1>3. Top \in GoodFrames
  BY <1>2
<1>4. Top \in Frames /\ Good(Top)
  BY <1>3 DEF GoodFrames
<1>5. ASSUME Depth > 1
      PROVE  /\ Callers \in GoodStacks /\ Callers # <<>>
             /\ User(Top) => User(Callers[Len(Callers)])
  <2>1. Callers \in GoodStacks
    BY <1>1, <1>2, LayeredPop DEF Callers
  <2>2. Len(Callers) = Depth - 1 /\ Callers # <<>> /\ Callers[Len(Callers)] = frames[Depth - 1]
    <3> DEFINE g == SubSeq(frames, 1, Len(frames) - 1)
    <3>1. /\ Len(g) = Len(frames) - 1 /\ g \in Seq(GoodFrames)
          /\ \A d \in 1 .. Len(frames) - 1 : g[d] = frames[d]
      BY <1>2, FrontFacts
    <3>2. Callers = g /\ Len(frames) - 1 \in 1 .. Len(frames) - 1
      BY <1>2, <1>5 DEF Callers
    <3> HIDE DEF g
    <3>3. Len(g) = Depth - 1 /\ Len(g) > 0 /\ g[Len(g)] = frames[Depth - 1]
      BY <1>2, <1>5, <3>1, <3>2
    <3>4. g # <<>>
      BY <3>1, <3>3
    <3> QED BY <3>2, <3>3, <3>4
  <2>3. User(Top) => User(frames[Depth - 1])
    BY <1>2, <1>5 DEF Layered
  <2> QED BY <2>1, <2>2, <2>3
<1>6. ASSUME NEW f \in GoodFrames, User(f) <=> User(Top)
      PROVE  /\ Become(f) \in GoodStacks /\ Become(f) # <<>>
             /\ Become(f)[Len(Become(f))] = f
  <2>1. /\ [frames EXCEPT ![Len(frames)] = f] \in GoodStacks
        /\ [frames EXCEPT ![Len(frames)] = f] # <<>>
        /\ Len([frames EXCEPT ![Len(frames)] = f]) = Len(frames)
        /\ [frames EXCEPT ![Len(frames)] = f][Len(frames)] = f
    BY <1>1, <1>2, <1>6, LayeredBecome
  <2> QED BY <2>1 DEF Become, Depth
<1>7. ASSUME NEW f \in GoodFrames, User(f) => User(Top)
      PROVE  Append(frames, f) \in GoodStacks
  BY <1>1, <1>2, <1>7, LayeredPush
<1>8. ASSUME User(Top), NEW d \in DOMAIN frames PROVE User(frames[d])
  <2>1. CASE d = Depth
    BY <2>1, <1>2, <1>8
  <2>2. CASE d # Depth
    BY <2>2, <1>2, <1>8 DEF Layered
  <2> QED BY <2>1, <2>2
<1> QED BY <1>2, <1>3, <1>4, <1>5, <1>6, <1>7, <1>8

(* The frames that are made are good. *)
LEMMA GoodNew ==
    ASSUME IInv
    PROVE  /\ LoopFrame \in GoodFrames /\ User(LoopFrame)
           /\ \A k \in Kinds : BroadcastFrame(k) \in GoodFrames /\ ~User(BroadcastFrame(k))
           /\ \A m \in 1 .. started : m \notin freed =>
                 /\ FlushFrame(m) \in GoodFrames /\ ~User(FlushFrame(m))
                 /\ \A no \in Nat : SyncFrame(m, no) \in GoodFrames /\ ~User(SyncFrame(m, no))
           /\ \A cmd \in Seq(Ops) : CmdFrame(0, cmd) \in GoodFrames
           /\ \A m \in 1 .. started : \A cmd \in Seq(Ops) :
                 NoWait(cmd) /\ (Needs(cmd) => m \notin freed) =>
                    CmdFrame(m, cmd) \in GoodFrames /\ ~User(CmdFrame(m, cmd))
<1>1. RecordTypes /\ started \in Nat /\ 0 \notin freed /\ started <= MaxModules
  BY Numbers DEF IInv, RecordTypes
<1>2. 0 \in Nat /\ 0 \in 0 .. MaxModules /\ <<>> \in Seq(Ops) /\ 0 \in 0 .. started
      /\ 1 .. started \subseteq 0 .. MaxModules /\ 1 .. started \subseteq 0 .. started
      /\ 0 \notin 1 .. started
  BY <1>1, Numbers
<1>3. NoWait(<<>>) /\ ~Needs(<<>>)
  BY DEF NoWait, Needs
<1>4. LoopFrame \in GoodFrames /\ User(LoopFrame)
  <2>1. LoopFrame \in Frames /\ LoopFrame.kind = "loop" /\ LoopFrame.mod = 0
    BY <1>2, NewFrames
  <2>2. LoopFrame.rest = <<>>
    BY DEF LoopFrame, Frame
  <2> HIDE DEF LoopFrame
  <2> QED BY <1>1, <1>2, <1>3, <2>1, <2>2 DEF GoodFrames, Good, User
<1>5. ASSUME NEW k \in Kinds
      PROVE  BroadcastFrame(k) \in GoodFrames /\ ~User(BroadcastFrame(k))
  <2> DEFINE f == BroadcastFrame(k)
  <2>1. f \in Frames /\ f.kind = "bcast"
    BY <1>1, SoundNew DEF SoundFrames, BroadcastFrame, Frame
  <2>2. f.mod = 0 /\ f.rest = <<>>
    BY DEF BroadcastFrame, Frame
  <2> HIDE DEF f
  <2>3. f \in GoodFrames /\ ~User(f)
    BY <1>1, <1>2, <1>3, <2>1, <2>2 DEF GoodFrames, Good, User
  <2> QED BY <2>3 DEF f
<1>6. ASSUME NEW m \in 1 .. started, m \notin freed, NEW no \in Nat
      PROVE  /\ FlushFrame(m) \in GoodFrames /\ ~User(FlushFrame(m))
             /\ SyncFrame(m, no) \in GoodFrames /\ ~User(SyncFrame(m, no))
  <2>1. /\ FlushFrame(m) \in Frames /\ FlushFrame(m).mod = m
        /\ SyncFrame(m, no) \in Frames /\ SyncFrame(m, no).mod = m
    BY <1>2, NewFrames
  <2>2. /\ FlushFrame(m).kind = "flush" /\ SyncFrame(m, no).kind = "sync"
        /\ FlushFrame(m).rest = <<>> /\ SyncFrame(m, no).rest = <<>>
    BY DEF FlushFrame, SyncFrame, Frame
  <2> HIDE DEF FlushFrame, SyncFrame
  <2> QED BY <1>1, <1>2, <1>3, <1>6, <2>1, <2>2 DEF GoodFrames, Good, User
<1>7. ASSUME NEW m \in 0 .. started, NEW cmd \in Seq(Ops)
      PROVE  /\ CmdFrame(m, cmd) \in Frames /\ CmdFrame(m, cmd).kind = "cmd"
             /\ CmdFrame(m, cmd).mod = m /\ CmdFrame(m, cmd).rest = cmd
  <2>1. m \in 0 .. MaxModules
    BY <1>1, Numbers
  <2>2. CmdFrame(m, cmd) \in Frames /\ CmdFrame(m, cmd).kind = "cmd"
    BY <1>2, <2>1, NewFrames
  <2>3. CmdFrame(m, cmd).mod = m /\ CmdFrame(m, cmd).rest = cmd
    BY DEF CmdFrame, Frame
  <2> QED BY <2>2, <2>3
<1>8. ASSUME NEW cmd \in Seq(Ops) PROVE CmdFrame(0, cmd) \in GoodFrames
  <2>1. /\ CmdFrame(0, cmd) \in Frames /\ CmdFrame(0, cmd).kind = "cmd"
        /\ CmdFrame(0, cmd).mod = 0
    BY <1>2, <1>7
  <2> HIDE DEF CmdFrame
  <2> QED BY <1>1, <1>2, <2>1 DEF GoodFrames, Good
<1>9. ASSUME NEW m \in 1 .. started, NEW cmd \in Seq(Ops),
             NoWait(cmd), Needs(cmd) => m \notin freed
      PROVE  CmdFrame(m, cmd) \in GoodFrames /\ ~User(CmdFrame(m, cmd))
  <2>1. /\ CmdFrame(m, cmd) \in Frames /\ CmdFrame(m, cmd).kind = "cmd"
        /\ CmdFrame(m, cmd).mod = m /\ CmdFrame(m, cmd).rest = cmd
    BY <1>2, <1>7
  <2> HIDE DEF CmdFrame
  <2> QED BY <1>1, <1>2, <1>9, <2>1 DEF GoodFrames, Good, User
<1> QED BY <1>4, <1>5, <1>6, <1>8, <1>9

(* Modules are only added, and freed only where nothing uses them. *)
LEMMA RecordsLast ==
    ASSUME IInv, Next
    PROVE  /\ started' \in Nat /\ started \in Nat /\ started <= started'
           /\ ~Cleanup => freed' = freed
           /\ freed' \subseteq Modules
<1>1. RecordTypes /\ RecordTypes'
  BY RecordsStep DEF IInv
<1>2. started' = started \/ started' = started + 1
  <2> USE DEF records
  <2>1. CASE Write \/ Wait
    BY <2>1 DEF Write, Broadcast, BroadcastEnds, FlushWrites, FlushEnds, FlushFails,
                FlushTimeout, Wait, SyncReceive, SyncEof, SyncTimeout
  <2>2. CASE Command \/ Event
    BY <2>2 DEF Command, CmdBroadcasts, CmdReplies, CmdKills, CmdStarts, CmdWaits, CmdGrabs,
                CmdDoesNothing, CmdEnds, Event
  <2>3. CASE Round
    BY <2>3 DEF Round, SelectReturns, ScanReads, ScanEof, ScanWrites, ScanEnds,
                QueueExecutes, Cleanup
  <2>4. ASSUME NEW m \in Modules, Process(m) PROVE started' = started
    BY <2>4, Zenon DEF Process, ProcReads, ProcSends, ProcExits
  <2> QED BY <2>1, <2>2, <2>3, <2>4 DEF Next, Fvwm
<1>3. ~Cleanup => freed' = freed
  <2> USE DEF records
  <2>1. CASE Write \/ Wait
    BY <2>1 DEF Write, Broadcast, BroadcastEnds, FlushWrites, FlushEnds, FlushFails,
                FlushTimeout, Wait, SyncReceive, SyncEof, SyncTimeout
  <2>2. CASE Command \/ Event
    BY <2>2 DEF Command, CmdBroadcasts, CmdReplies, CmdKills, CmdStarts, CmdWaits, CmdGrabs,
                CmdDoesNothing, CmdEnds, Event
  <2>3. CASE Round
    BY <2>3 DEF Round, SelectReturns, ScanReads, ScanEof, ScanWrites, ScanEnds,
                QueueExecutes
  <2>4. ASSUME NEW m \in Modules, Process(m) PROVE freed' = freed
    BY <2>4, Zenon DEF Process, ProcReads, ProcSends, ProcExits
  <2> QED BY <2>1, <2>2, <2>3, <2>4 DEF Next, Fvwm
<1> QED BY <1>1, <1>2, <1>3, Numbers DEF RecordTypes

LEMMA GoodLasts ==
    ASSUME IInv, Next, ~Cleanup
    PROVE  GoodFrames \subseteq GoodFrames' /\ GoodEntries \subseteq GoodEntries'
<1>1. /\ started' \in Nat /\ started \in Nat /\ started <= started' /\ freed' = freed
  BY RecordsLast
<1>2. 0 .. started \subseteq 0 .. started' /\ 1 .. started \subseteq 1 .. started'
  BY <1>1
<1> QED BY <1>1, <1>2 DEF GoodFrames, Good, GoodEntries

LEMMA GoodAccept ==
    ASSUME GInv, Accepting
    PROVE  /\ frames' \in GoodStacks
           /\ \/ UNCHANGED queues
              \/ \E m \in (1 .. started) \ freed, k \in Kinds : \E fs :
                    PositiveWrite(m, k, fs) /\ fs \in GoodStacks /\ fs # <<>> /\ m \in Modules
<1>1. /\ RecordTypes /\ StreamTypes /\ Good(Top) /\ Top \in Frames /\ IInv
      /\ list \subseteq (1 .. started) \ freed
      /\ 1 .. started \subseteq Modules
  <2>1. list \subseteq (1 .. started) \ freed
    BY DEF GInv, IInv, FreedOnce
  <2>2. 1 .. started \subseteq Modules
    BY Numbers DEF GInv, IInv, RecordTypes
  <2> QED BY <2>1, <2>2, GoodTop DEF GInv, IInv
<1>2. \A m \in (1 .. started) \ freed : \A fs \in GoodStacks : fs # <<>> =>
         /\ Append(fs, FlushFrame(m)) \in GoodStacks /\ Append(fs, FlushFrame(m)) # <<>>
         /\ \A no \in Nat : /\ Append(fs, SyncFrame(m, no)) \in GoodStacks
                            /\ Append(fs, SyncFrame(m, no)) # <<>>
  <2> SUFFICES ASSUME NEW m \in (1 .. started) \ freed, NEW fs \in GoodStacks, fs # <<>>,
                      NEW no \in Nat
               PROVE  /\ Append(fs, FlushFrame(m)) \in GoodStacks
                      /\ Append(fs, FlushFrame(m)) # <<>>
                      /\ Append(fs, SyncFrame(m, no)) \in GoodStacks
                      /\ Append(fs, SyncFrame(m, no)) # <<>>
    OBVIOUS
  <2>1. /\ FlushFrame(m) \in GoodFrames /\ ~User(FlushFrame(m))
        /\ SyncFrame(m, no) \in GoodFrames /\ ~User(SyncFrame(m, no))
    BY <1>1, GoodNew
  <2>2. \A f \in GoodFrames : Append(fs, f) # <<>>
    BY AppendFacts DEF GoodStacks
  <2> QED BY <2>1, <2>2, LayeredPush
<1>3. ASSUME NEW fs \in GoodStacks, fs # <<>>, NEW m \in (1 .. started) \ freed, NEW k,
             PositiveWrite(m, k, fs)
      PROVE  frames' \in GoodStacks
  <2>1. \/ frames' = fs
        \/ frames' = Append(Append(fs, SyncFrame(m, Len(log[m]) + 1)), FlushFrame(m))
    BY <1>3 DEF PositiveWrite
  <2>2. Len(log[m]) + 1 \in Nat
    BY <1>1 DEF StreamTypes
  <2> QED BY <1>2, <1>3, <2>1, <2>2
<1>4. ASSUME At("bcast"), Top.itr \in list PROVE BcastNext \in GoodStacks /\ BcastNext # <<>>
  <2> DEFINE f == [Top EXCEPT !.itr = ItrNext(Top.itr), !.seen = Top.seen \cup {Top.itr}]
  <2>1. /\ f \in Frames /\ f.mod = Top.mod /\ f.rest = Top.rest /\ f.kind = Top.kind
    <3>1. ItrNext(Top.itr) \in 0 .. MaxModules /\ Top.itr \in Modules
      BY <1>1, <1>4, IteratorType DEF RecordTypes
    <3> QED BY <1>1, <3>1 DEF Frames
  <2> HIDE DEF f
  <2>2. f \in GoodFrames /\ (User(f) <=> User(Top))
    BY <1>1, <2>1 DEF GoodFrames, Good, User
  <2> QED BY <2>2, GoodTop DEF BcastNext, f
<1>5. ASSUME At("cmd"), Top.rest # <<>>
      PROVE  /\ Rest \in GoodStacks /\ Rest # <<>>
             /\ Head(Top.rest) = Reply => Top.mod \notin freed
  <2>1. Top.rest \in Seq(Ops)
    BY <1>1 DEF Frames
  <2> DEFINE t == Tail(Top.rest)
  <2>2. /\ t \in Seq(Ops) /\ DOMAIN t = 1 .. Len(Top.rest) - 1
        /\ \A i \in 1 .. Len(Top.rest) - 1 : t[i] = Top.rest[i + 1] /\ i + 1 \in DOMAIN Top.rest
        /\ Head(Top.rest) = Top.rest[1] /\ 1 \in DOMAIN Top.rest
    BY <1>5, <2>1, TailFacts
  <2> HIDE DEF t
  <2>3. (NoWait(Top.rest) => NoWait(t)) /\ (Needs(t) => Needs(Top.rest))
    BY <2>2 DEF NoWait, Needs
  <2> DEFINE f == [Top EXCEPT !.rest = t]
  <2>4. f \in Frames /\ f.mod = Top.mod /\ f.rest = t /\ f.kind = Top.kind
    BY <1>1, <2>2 DEF Frames
  <2> HIDE DEF f
  <2>5. f \in GoodFrames /\ (User(f) <=> User(Top))
    BY <1>1, <1>5, <2>3, <2>4 DEF GoodFrames, Good, User, At
  <2>6. Rest \in GoodStacks /\ Rest # <<>>
    BY <2>5, GoodTop DEF Rest, f, t
  <2>7. Head(Top.rest) = Reply => Needs(Top.rest)
    BY <2>2 DEF Needs
  <2> QED BY <1>1, <2>6, <2>7 DEF Good
<1>6. CASE At("bcast") /\ Top.itr \in list
  <2>1. Top.itr \in (1 .. started) \ freed /\ Top.itr \in Modules
    BY <1>1, <1>6
  <2>2. /\ BcastNext \in GoodStacks /\ BcastNext # <<>>
        /\ Append(BcastNext, FlushFrame(Top.itr)) \in GoodStacks
        /\ Append(BcastNext, FlushFrame(Top.itr)) # <<>>
    BY <1>2, <1>4, <1>6, <2>1
  <2>3. \/ frames' = BcastNext /\ UNCHANGED queues
        \/ PositiveWrite(Top.itr, Top.msg, BcastNext)
        \/ PositiveWrite(Top.itr, Top.msg, Append(BcastNext, FlushFrame(Top.itr)))
    BY <1>1, <1>6, AcceptStack DEF At
  <2>4. Top.msg \in Kinds
    BY <1>1 DEF Frames
  <2> QED BY <1>3, <2>1, <2>2, <2>3, <2>4
<1>7. CASE At("cmd") /\ Top.rest # <<>> /\ Head(Top.rest) = Reply
  <2>1. Rest \in GoodStacks /\ Rest # <<>> /\ Top.mod \notin freed
    BY <1>5, <1>7
  <2>2. CASE Top.mod = 0 /\ frames' = Rest /\ UNCHANGED queues
    BY <2>1, <2>2
  <2>3. CASE /\ Top.mod \in Modules
             /\ PositiveWrite(Top.mod, Reply, Append(Rest, FlushFrame(Top.mod)))
    <3>1. Top.mod \in (1 .. started) \ freed
      <4>1. Top.mod \in 0 .. started /\ Top.mod # 0
        BY <1>1, <2>3, Numbers DEF Good
      <4> QED BY <4>1, <2>1
    <3>2. /\ Append(Rest, FlushFrame(Top.mod)) \in GoodStacks
          /\ Append(Rest, FlushFrame(Top.mod)) # <<>>
      BY <1>2, <2>1, <3>1
    <3> QED BY <1>3, <2>3, <3>1, <3>2, Numbers
  <2> QED BY <1>1, <1>7, <2>2, <2>3, AcceptStack DEF At
<1> QED BY <1>1, <1>6, <1>7, AcceptStack

LEMMA GoodClosed ==
    ASSUME GInv
    PROVE  Closed(GoodStacks)
<1>1. /\ RecordTypes /\ OtherTypes /\ Good(Top) /\ Top \in Frames /\ IInv
      /\ list \subseteq (1 .. started) \ freed
      /\ 0 \notin freed /\ FrameOK(Top)
      /\ cqueue \in Seq(GoodEntries) /\ inbox \in [Modules -> Seq(GoodInputs)]
  <2>1. list \subseteq (1 .. started) \ freed
    BY DEF GInv, IInv, FreedOnce
  <2>2. 0 \notin freed
    BY Numbers DEF GInv, IInv, RecordTypes
  <2> QED BY <2>1, <2>2, GoodTop, TopFacts DEF GInv, IInv
<1>2. /\ frames # <<>>
      /\ Depth > 1 => /\ Callers \in GoodStacks /\ Callers # <<>>
                      /\ User(Top) => User(Callers[Len(Callers)])
      /\ \A f \in GoodFrames : (User(f) <=> User(Top)) =>
            /\ Become(f) \in GoodStacks /\ Become(f) # <<>>
            /\ Become(f)[Len(Become(f))] = f
      /\ \A f \in GoodFrames : (User(f) => User(Top)) => Append(frames, f) \in GoodStacks
  BY GoodTop
<1>3. \A fr \in GoodStacks, f \in GoodFrames :
         fr # <<>> /\ (User(f) => User(fr[Len(fr)])) => Append(fr, f) \in GoodStacks
  BY LayeredPush
<1>4. /\ LoopFrame \in GoodFrames
      /\ \A k \in Kinds : BroadcastFrame(k) \in GoodFrames /\ ~User(BroadcastFrame(k))
      /\ \A m \in (1 .. started) \ freed : FlushFrame(m) \in GoodFrames /\ ~User(FlushFrame(m))
      /\ \A cmd \in Seq(Ops) : CmdFrame(0, cmd) \in GoodFrames
      /\ \A m \in 1 .. started : \A cmd \in Seq(Ops) :
            NoWait(cmd) /\ (Needs(cmd) => m \notin freed) =>
               CmdFrame(m, cmd) \in GoodFrames /\ ~User(CmdFrame(m, cmd))
  BY <1>1, GoodNew
<1>5. ASSUME Top.rest # <<>>, At("cmd")
      PROVE  /\ Rest \in GoodStacks
             /\ \A k \in Kinds : Append(Rest, BroadcastFrame(k)) \in GoodStacks
             /\ Head(Top.rest) = "wait" => Append(Rest, LoopFrame) \in GoodStacks
  <2>1. Top.rest \in Seq(Ops)
    BY <1>1 DEF Frames
  <2> DEFINE t == Tail(Top.rest)
  <2>2. /\ t \in Seq(Ops) /\ DOMAIN t = 1 .. Len(Top.rest) - 1
        /\ \A i \in 1 .. Len(Top.rest) - 1 : t[i] = Top.rest[i + 1] /\ i + 1 \in DOMAIN Top.rest
        /\ Head(Top.rest) = Top.rest[1] /\ 1 \in DOMAIN Top.rest
    BY <1>5, <2>1, TailFacts
  <2> HIDE DEF t
  <2>3. (NoWait(Top.rest) => NoWait(t)) /\ (Needs(t) => Needs(Top.rest))
    BY <2>2 DEF NoWait, Needs
  <2> DEFINE f == [Top EXCEPT !.rest = t]
  <2>4. f \in Frames /\ f.mod = Top.mod /\ f.rest = t /\ f.kind = Top.kind
    BY <1>1, <2>2 DEF Frames
  <2> HIDE DEF f
  <2>5. f \in GoodFrames /\ (User(f) <=> User(Top))
    BY <1>1, <1>5, <2>3, <2>4 DEF GoodFrames, Good, User, At
  <2>6. Rest \in GoodStacks /\ Rest # <<>> /\ Rest[Len(Rest)] = f
    BY <1>2, <2>5 DEF Rest, f, t
  <2>7. Head(Top.rest) = "wait" => User(f)
    BY <1>1, <1>5, <2>2, <2>4 DEF Good, NoWait, User, At
  <2> QED BY <1>3, <1>4, <2>6, <2>7
<1>6. ASSUME NEW f \in Frames, f.kind = "loop", At("loop"), f.mod \in {Top.mod, 0},
             f.rest \in {Top.rest, <<>>}
      PROVE  /\ Become(f) \in GoodStacks
             /\ \A m \in list : Append(Become(f), FlushFrame(m)) \in GoodStacks
  <2>1. f.mod = 0 /\ Top.mod = 0
    BY <1>1, <1>6 DEF Good, At
  <2>2. f \in GoodFrames /\ User(f) /\ User(Top)
    <3>1. 0 \in 0 .. started
      BY <1>1, Numbers DEF RecordTypes
    <3> QED BY <1>1, <1>6, <2>1, <3>1 DEF GoodFrames, Good, User, At
  <2>3. Become(f) \in GoodStacks /\ Become(f) # <<>>
    BY <1>2, <2>2
  <2> QED BY <1>1, <1>3, <1>4, <2>3
<1>7. ASSUME NEW cmd \in EventInputs, At("loop")
      PROVE  /\ Append(frames, CmdFrame(0, cmd)) \in GoodStacks
             /\ Depth > 1 => Append(Callers, CmdFrame(0, cmd)) \in GoodStacks
  <2>1. CmdFrame(0, cmd) \in GoodFrames
    BY <1>4, Numbers
  <2>2. User(Top)
    BY <1>1, <1>7 DEF Good, At, User
  <2> QED BY <1>2, <1>3, <2>1, <2>2
<1>8. ASSUME cqueue # <<>>
      PROVE  Append(frames, CmdFrame(Head(cqueue).mod, Head(cqueue).cmd)) \in GoodStacks
  <2>1. Head(cqueue) \in GoodEntries
    BY <1>1, <1>8, TailFacts
  <2>2. /\ Head(cqueue).mod \in 1 .. started /\ Head(cqueue).cmd \in Seq(Ops)
        /\ NoWait(Head(cqueue).cmd)
        /\ Needs(Head(cqueue).cmd) => Head(cqueue).mod \notin freed
    BY <2>1 DEF GoodEntries, Entry
  <2> QED BY <1>2, <1>4, <2>2
<1>9. ASSUME At("sync"), inbox[Top.mod] # <<>>
      PROVE  Append(frames, CmdFrame(Top.mod, Head(inbox[Top.mod]).cmd)) \in GoodStacks
  <2>1. Top.mod \in Modules /\ Top.mod \in 1 .. started /\ Top.mod \notin freed
    <3>1. Top.mod \in 0 .. started /\ Top.mod # 0 /\ Top.mod \notin freed /\ Top.mod \in Modules
      BY <1>1, <1>9 DEF Good, At, FrameOK
    <3>2. started \in Nat
      BY <1>1, Numbers DEF RecordTypes
    <3> QED BY <3>1, <3>2
  <2>2. inbox[Top.mod] \in Seq(GoodInputs)
    BY <1>1, <2>1
  <2>3. Head(inbox[Top.mod]) \in GoodInputs
    BY <1>9, <2>2, TailFacts
  <2>4. Head(inbox[Top.mod]).cmd \in Seq(Ops) /\ NoWait(Head(inbox[Top.mod]).cmd)
    BY <2>3 DEF GoodInputs, Input
  <2> QED BY <1>2, <1>4, <2>1, <2>4
<1> QED BY <1>2, <1>5, <1>6, <1>7, <1>8, <1>9 DEF Closed

(* Where modules are freed, only the user is active. *)
LEMMA CleanupGood ==
    ASSUME GInv, Cleanup
    PROVE  frames' \in Seq(GoodFrames')
<1>1. IInv /\ Next /\ RecordTypes /\ ~Accepting
  BY DEF GInv, IInv, Next, Fvwm, Round, Cleanup, Accepting, Broadcast, CmdReplies, Doing, At, InLoop
<1>2. /\ started' \in Nat /\ started \in Nat /\ started <= started' /\ freed' \subseteq Modules
  BY <1>1, RecordsLast
<1>3. 0 \notin freed' /\ 0 \in 0 .. started'
  BY <1>2, Numbers
<1>4. At("loop") /\ frames' = Become(LoopFrame)
  BY DEF Cleanup, InLoop
<1>5. User(Top)
  BY <1>4, GoodTop DEF Good, At, User
<1>6. \A d \in DOMAIN frames : User(frames[d])
  BY <1>5, GoodTop
<1>7. \A f \in Frames : User(f) => f \in GoodFrames'
  BY <1>3, Zenon DEF GoodFrames, Good, User
<1>8. frames \in Seq(Frames) /\ frames # <<>> /\ Depth = Len(frames)
  BY <1>1 DEF IInv, StackOK, Depth
<1>9. LoopFrame \in GoodFrames'
  <2>1. LoopFrame \in Frames /\ User(LoopFrame)
    BY <1>1, GoodNew DEF GoodFrames
  <2> QED BY <1>7, <2>1
<1> DEFINE B == GoodFrames'
<1>10. frames \in Seq(B)
  <2>1. \A d \in DOMAIN frames : frames[d] \in B
    BY <1>6, <1>7, <1>8
  <2> HIDE DEF B
  <2> QED BY <1>8, <2>1
<1> HIDE DEF B
<1>11. Become(LoopFrame) \in Seq(B)
  <2>1. LoopFrame \in B
    BY <1>9 DEF B
  <2> QED BY <1>8, <1>10, <2>1, LastFacts DEF Become
<1> QED BY <1>4, <1>11 DEF B

LEMMA GoodFramesStep ==
    ASSUME GInv, Next
    PROVE  frames' \in GoodStacks'
<1>1. IInv
  BY DEF GInv
<1>2. frames' \in GoodStacks
  <2>1. CASE Accepting
    BY <2>1, GoodAccept
  <2>2. CASE ~Accepting
    BY <1>1, <2>2, QuietStack, GoodClosed DEF GInv
  <2> QED BY <2>1, <2>2
<1>3. Layered(frames') /\ frames' \in Seq(GoodFrames)
  BY <1>2 DEF GoodStacks
<1>4. frames' \in Seq(GoodFrames')
  <2>1. CASE Cleanup
    BY <2>1, CleanupGood
  <2>2. CASE ~Cleanup
    <3>1. GoodFrames \subseteq GoodFrames'
      BY <1>1, <2>2, GoodLasts
    <3>2. \A B, C : B \subseteq C => Seq(B) \subseteq Seq(C)
      OBVIOUS
    <3> QED BY <1>3, <3>1, <3>2
  <2> QED BY <2>1, <2>2
<1> QED BY <1>3, <1>4, Zenon DEF GoodStacks

(* What modules say and what is left of it does not wait. *)
LEMMA GoodTakes ==
    ASSUME GInv, NEW m \in Modules, inbox[m] # <<>>, TakeInput(m)
    PROVE  /\ inbox' \in [Modules -> Seq(GoodInputs)]
           /\ Head(inbox[m]).cmd \in Seq(Ops) /\ NoWait(Head(inbox[m]).cmd)
<1>1. inbox \in [Modules -> Seq(GoodInputs)] /\ inbox[m] \in Seq(GoodInputs)
  BY DEF GInv
<1>2. Tail(inbox[m]) \in Seq(GoodInputs) /\ Head(inbox[m]) \in GoodInputs
  BY <1>1, TailFacts
<1>3. inbox' = [inbox EXCEPT ![m] = Tail(inbox[m])]
  BY DEF TakeInput
<1>4. inbox' \in [Modules -> Seq(GoodInputs)]
  BY <1>1, <1>2, <1>3
<1> QED BY <1>2, <1>4 DEF GoodInputs, Input

LEMMA UnlockGood == Unlock \in GoodInputs /\ Quit \in GoodInputs
<1>1. Unlock.cmd = <<"nop">> /\ Quit.cmd = <<"nop">>
  BY DEF Unlock, Quit
<1>2. NoWait(<<"nop">>)
  BY DEF NoWait
<1> QED BY <1>1, <1>2, UnlockType DEF GoodInputs

LEMMA GoodRestStep ==
    ASSUME ModulesNeverWait, GInv, Next
    PROVE  /\ cqueue' \in Seq(GoodEntries')
           /\ inbox' \in [Modules -> Seq(GoodInputs)]
           /\ LogGood'
<1>1. /\ IInv /\ RecordTypes /\ OtherTypes /\ StreamTypes
      /\ Top \in Frames /\ FrameOK(Top)
      /\ cqueue \in Seq(GoodEntries) /\ inbox \in [Modules -> Seq(GoodInputs)] /\ LogGood
  BY TopFacts DEF GInv, IInv
<1>2. started' \in Nat /\ started \in Nat /\ started <= started'
  BY <1>1, RecordsLast
<1>3. \A B, C : B \subseteq C => Seq(B) \subseteq Seq(C)
  OBVIOUS
<1>4. ASSUME cqueue' \in Seq(GoodEntries) PROVE cqueue' \in Seq(GoodEntries')
  <2>1. CASE Cleanup
    <3>1. cqueue' = <<>>
      BY <2>1 DEF Cleanup
    <3> QED BY <3>1
  <2>2. CASE ~Cleanup
    <3>1. GoodEntries \subseteq GoodEntries'
      BY <1>1, <2>2, GoodLasts
    <3> HIDE DEF GoodEntries
    <3> QED BY <1>3, <1>4, <3>1
  <2> QED BY <2>1, <2>2
<1>15. log' = log => LogGood'
  <2>1. \A m \in Modules : m > started' => m > started
    BY <1>2, Numbers
  <2> QED BY <1>1, <2>1 DEF LogGood
<1>5. CASE UNCHANGED <<queues, inbox, cqueue>>
  BY <1>1, <1>4, <1>5, <1>15 DEF queues
<1>6. CASE Accepting
  <2>1. UNCHANGED <<inbox, cqueue, started>>
    BY <1>6 DEF Accepting, Broadcast, CmdReplies, process, records
  <2>2. CASE UNCHANGED queues
    BY <1>5, <2>1, <2>2
  <2>3. ASSUME NEW m \in (1 .. started) \ freed, NEW k, NEW fs, PositiveWrite(m, k, fs), m \in Modules
        PROVE  LogGood'
    <3>1. \A x \in Modules \ {m} : log'[x] = log[x]
      BY <1>1, <2>3 DEF PositiveWrite, queues, StreamTypes
    <3>2. ~ (m > started)
      BY <1>2
    <3> QED BY <1>1, <2>1, <3>1, <3>2 DEF LogGood
  <2> QED BY <1>1, <1>4, <1>5, <1>6, <2>1, <2>2, <2>3, GoodAccept
<1>7. CASE Write \/ Command
  <2>1. UNCHANGED <<inbox, cqueue>>
    BY <1>7 DEF Write, Broadcast, BroadcastEnds, FlushWrites, FlushEnds, FlushFails,
                FlushTimeout, Command, CmdBroadcasts, CmdReplies, CmdKills, CmdStarts,
                CmdWaits, CmdGrabs, CmdDoesNothing, CmdEnds, process
  <2>2. CASE ~Accepting
    <3>1. log' = log
      BY <1>7, <2>2 DEF Write, BroadcastEnds, FlushWrites, FlushEnds, FlushFails,
                FlushTimeout, Command, CmdBroadcasts, CmdKills, CmdStarts, Accepting,
                CmdWaits, CmdGrabs, CmdDoesNothing, CmdEnds, queues
    <3> QED BY <1>1, <1>4, <1>15, <2>1, <3>1
  <2> QED BY <1>6, <2>2
<1>8. CASE SyncReceive
  <2>1. /\ At("sync") /\ inbox[Top.mod] # <<>> /\ TakeInput(Top.mod)
        /\ UNCHANGED <<cqueue, log>>
    BY <1>8 DEF SyncReceive, queues
  <2>2. Top.mod \in Modules
    BY <1>1, <2>1 DEF FrameOK, At
  <2>3. inbox' \in [Modules -> Seq(GoodInputs)]
    BY <2>1, <2>2, GoodTakes
  <2> QED BY <1>1, <1>4, <1>15, <2>1, <2>3
<1>9. CASE SyncEof \/ SyncTimeout
  BY <1>5, <1>9 DEF SyncEof, SyncTimeout, process
<1>10. CASE ScanReads
  <2>1. PICK m \in Top.in : /\ Scanning(m) /\ inbox[m] # <<>> /\ TakeInput(m)
                            /\ cqueue' = Append(cqueue, [mod |-> m, cmd |-> Head(inbox[m]).cmd])
    BY <1>10 DEF ScanReads
  <2>2. m \in Modules /\ m \in (1 .. started) \ freed
    BY <1>1, <2>1 DEF Scanning, RecordTypes, IInv, FreedOnce
  <2>3. /\ inbox' \in [Modules -> Seq(GoodInputs)]
        /\ Head(inbox[m]).cmd \in Seq(Ops) /\ NoWait(Head(inbox[m]).cmd)
    BY <2>1, <2>2, GoodTakes
  <2>4. [mod |-> m, cmd |-> Head(inbox[m]).cmd] \in GoodEntries
    BY <2>2, <2>3, Numbers DEF GoodEntries, Entry
  <2>5. cqueue' \in Seq(GoodEntries)
    BY <1>1, <2>1, <2>4, AppendFacts
  <2>6. log' = log
    BY <1>10 DEF ScanReads, queues
  <2> QED BY <1>1, <1>4, <1>15, <2>3, <2>5, <2>6
<1>11. CASE ScanEof \/ SelectReturns \/ ScanWrites \/ ScanEnds \/ Cleanup
  BY <1>5, <1>11 DEF ScanEof, SelectReturns, ScanWrites, ScanEnds, Cleanup, process
<1>12. CASE QueueExecutes
  <2>1. cqueue # <<>> /\ cqueue' = Tail(cqueue) /\ UNCHANGED <<inbox, log>>
    BY <1>12 DEF QueueExecutes, process, queues
  <2>2. cqueue' \in Seq(GoodEntries)
    BY <1>1, <2>1, TailFacts
  <2> QED BY <1>1, <1>4, <1>15, <2>1, <2>2
<1>13. CASE Event
  BY <1>5, <1>13 DEF Event, process
<1>14. ASSUME NEW m \in Modules, Process(m)
       PROVE  /\ cqueue' \in Seq(GoodEntries')
              /\ inbox' \in [Modules -> Seq(GoodInputs)]
              /\ LogGood'
  <2>1. UNCHANGED <<cqueue, log>>
    BY <1>14, Zenon DEF Process, ProcReads, ProcSends, ProcExits, queues
  <2>2. \/ inbox' = inbox
        \/ \E x \in GoodInputs : inbox' = [inbox EXCEPT ![m] = Append(inbox[m], x)]
    <3>1. CASE ProcReads(m)
      BY <3>1, UnlockGood DEF ProcReads
    <3>2. CASE ProcSends(m)
      <4>1. \A x \in Says : x \in GoodInputs
        <5>1. [cmd : Inputs, quit : Quits, unlock : {FALSE}] \subseteq GoodInputs
          BY Numbers, LinkAssumption DEF LinkAssumption, Input, GoodInputs, ModulesNeverWait
        <5> QED BY <5>1, UnlockGood DEF Says
      <4> QED BY <3>2, <4>1 DEF ProcSends
    <3>3. CASE ProcExits(m)
      BY <3>3, Zenon DEF ProcExits
    <3> QED BY <1>14, <3>1, <3>2, <3>3, Zenon DEF Process
  <2>3. \A x \in GoodInputs : Append(inbox[m], x) \in Seq(GoodInputs)
    BY <1>1
  <2>4. inbox' \in [Modules -> Seq(GoodInputs)]
    BY <1>1, <2>2, <2>3
  <2> QED BY <1>1, <1>4, <1>15, <2>1, <2>4
<1> QED BY <1>7, <1>8, <1>9, <1>10, <1>11, <1>12, <1>13, <1>14
        DEF Next, Fvwm, Wait, Round

LEMMA GoodHolds == ASSUME ModulesNeverWait PROVE Spec => []GInv
<1>1. Init => GInv
  <2> SUFFICES ASSUME Init PROVE GInv
    OBVIOUS
  <2>1. IInv
    BY InitInv
  <2>2. LoopFrame \in GoodFrames /\ frames = <<LoopFrame>>
    BY <2>1, GoodNew DEF Init
  <2>3. frames \in GoodStacks
    <3>1. <<LoopFrame>> \in Seq(GoodFrames)
      BY <2>2
    <3>2. Layered(<<LoopFrame>>)
      <4>1. \A d, e \in {1} : ~(d < e)
        OBVIOUS
      <4>2. DOMAIN <<LoopFrame>> = {1}
        OBVIOUS
      <4> QED BY <4>1, <4>2 DEF Layered
    <3> QED BY <2>2, <3>1, <3>2 DEF GoodStacks
  <2> QED BY <2>1, <2>3 DEF Init, GInv, LogGood
<1>2. GInv /\ [Next]_vars => GInv'
  <2> SUFFICES ASSUME GInv, [Next]_vars PROVE GInv'
    OBVIOUS
  <2>1. IInv'
    BY NextInv DEF GInv
  <2>2. CASE Next
    <3>1. frames' \in GoodStacks'
      BY <2>2, GoodFramesStep
    <3>2. cqueue' \in Seq(GoodEntries') /\ inbox' \in [Modules -> Seq(GoodInputs)] /\ LogGood'
      BY <2>2, GoodRestStep
    <3>3. GoodInputs' = GoodInputs
      BY DEF GoodInputs, NoWait
    <3> QED BY <2>1, <3>1, <3>2, <3>3, Zenon DEF GInv
  <2>3. CASE UNCHANGED vars
    <3>1. /\ UNCHANGED <<list, row, freed, started, queue, done, log, pipe, inbox, running, got>>
          /\ UNCHANGED <<cqueue, frames, grabs, budget>>
      BY <2>3 DEF vars, records, queues, process
    <3>2. GoodFrames' = GoodFrames /\ GoodEntries' = GoodEntries /\ GoodInputs' = GoodInputs
      BY <3>1 DEF GoodFrames, Good, GoodEntries, GoodInputs, NoWait, Needs
    <3>3. GoodStacks' = GoodStacks
      BY <3>2 DEF GoodStacks, Layered, User
    <3> QED BY <2>1, <3>1, <3>2, <3>3 DEF GInv, LogGood
  <2> QED BY <2>2, <2>3
<1> QED BY <1>1, <1>2, PTL DEF Spec

(* module_cleanup frees no record that an activation further up still uses - not
   in PositiveWrite or FlushMessageQueue, not for a Send_Reply on the command
   queue - unless a module's command runs Wait. *)
THEOREM UseSafeHolds == ASSUME ModulesNeverWait PROVE Spec => []UseSafe
<1>1. GInv => UseSafe
  <2> SUFFICES ASSUME GInv PROVE UseSafe
    OBVIOUS
  <2>1. frames \in Seq(GoodFrames) /\ cqueue \in Seq(GoodEntries)
    BY DEF GInv, GoodStacks
  <2>2. \A d \in DOMAIN frames : frames[d] \in GoodFrames
    BY <2>1
  <2>3. \A i \in DOMAIN cqueue : cqueue[i] \in GoodEntries
    BY <2>1
  <2> QED BY <2>2, <2>3 DEF UseSafe, GoodFrames, Good, GoodEntries
<1> QED BY <1>1, GoodHolds, PTL

-----------------------------------------------------------------------------
(* Numbers of complete messages *)

LEMMA DivUnique ==
    ASSUME NEW s \in Nat, s > 0, NEW g \in Nat, NEW q \in Nat, NEW r \in Nat, r < s,
           g = q * s + r
    PROVE  g \div s = q
<1>1. PICK d \in Int : d = g \div s
  BY SMT
<1>2. PICK e \in Int : e = g % s
  BY SMT
<1>3. g = s * d + e /\ 0 <= e /\ e < s
  BY <1>1, <1>2, SMT
<1>4. s * (d - q) = r - e
  BY <1>3, SMT
<1>5. CASE d >= q + 1
  <2>1. s * (d - q) >= s
    BY <1>5, SMT
  <2> QED BY <2>1, <1>3, <1>4
<1>6. CASE d <= q - 1
  <2>1. s * (d - q) <= -s
    BY <1>6, SMT
  <2> QED BY <2>1, <1>3, <1>4
<1> QED BY <1>1, <1>5, <1>6

LEMMA DivNext ==
    ASSUME NEW s \in Nat, s > 0, NEW g \in Nat
    PROVE  /\ g \div s \in Nat
           /\ (g + 1) % s = 0 => (g + 1) \div s = g \div s + 1
           /\ (g + 1) % s # 0 => (g + 1) \div s = g \div s
           /\ \A n \in Nat : g <= n * s => g \div s <= n
<1>1. PICK q \in Int : q = g \div s
  BY SMT
<1>2. PICK r \in Int : r = g % s
  BY SMT
<1>3. g = s * q + r /\ 0 <= r /\ r < s
  BY <1>1, <1>2, SMT
<1>4. q \in Nat
  <2>1. CASE q < 0
    <3>1. s * q <= -s
      BY <2>1, SMT
    <3> QED BY <3>1, <1>3
  <2> QED BY <2>1
<1>5. g = q * s + r
  BY <1>3
<1>6. CASE r = s - 1
  <2>1. g + 1 = (q + 1) * s + 0
    BY <1>5, <1>6, SMT
  <2>2. (g + 1) \div s = q + 1
    BY <2>1, <1>4, DivUnique
  <2>3. (g + 1) % s = 0
    <3>1. PICK e \in Int : e = (g + 1) % s
      BY SMT
    <3>2. g + 1 = s * (q + 1) + e
      BY <3>1, <2>2, SMT
    <3> QED BY <3>1, <3>2, <2>1, SMT
  <2>4. (g + 1) \div s = g \div s + 1
    BY <1>1, <2>2
  <2> QED BY <2>3, <2>4
<1>7. CASE r # s - 1
  <2>1. g + 1 = q * s + (r + 1) /\ r + 1 < s /\ r + 1 \in Nat /\ g + 1 \in Nat
    BY <1>3, <1>5, <1>7
  <2>2. (g + 1) \div s = q
    BY <2>1, <1>4, DivUnique
  <2>3. (g + 1) % s # 0
    <3>1. PICK e \in Int : e = (g + 1) % s
      BY SMT
    <3>2. g + 1 = s * q + e
      BY <3>1, <2>2, SMT
    <3> QED BY <3>1, <3>2, <2>1, <1>3, SMT
  <2>4. (g + 1) \div s = g \div s
    BY <1>1, <2>2
  <2> QED BY <2>3, <2>4
<1>8. ASSUME NEW n \in Nat, g <= n * s PROVE q <= n
  <2>1. CASE q >= n + 1
    <3>1. q * s >= (n + 1) * s
      BY <2>1, <1>4, SMT
    <3>2. (n + 1) * s = n * s + s
      BY SMT
    <3> QED BY <3>1, <3>2, <1>3, <1>5, <1>8, SMT
  <2> QED BY <2>1, <1>4
<1> QED BY <1>1, <1>4, <1>6, <1>7, <1>8

-----------------------------------------------------------------------------
(* Who waits for which answer *)

SyncOn(m)  == {f \in Frames : f.kind = "sync" /\ f.mod = m}
Unlocks    == {x \in Input : x.unlock}
Waits(fr, m) == Cardinality(Places(fr, SyncOn(m)))

(* For each activation that waits for m there is an answer or a message. *)
Answered(m) == Cardinality(Waiting(m)) <= Cardinality(Answers(m)) + Cardinality(ToAnswer(m))
LInv == GInv /\ \A m \in Modules : Answered(m)

LEMMA WaitsFacts ==
    ASSUME NEW fr \in Seq(Frames), NEW m
    PROVE  /\ Waits(fr, m) \in Nat
           /\ \A f \in Frames : Waits(Append(fr, f), m)
                 = IF f.kind = "sync" /\ f.mod = m THEN Waits(fr, m) + 1 ELSE Waits(fr, m)
           /\ fr # <<>> => Waits(fr, m)
                 = IF fr[Len(fr)].kind = "sync" /\ fr[Len(fr)].mod = m
                   THEN Waits(SubSeq(fr, 1, Len(fr) - 1), m) + 1
                   ELSE Waits(SubSeq(fr, 1, Len(fr) - 1), m)
           /\ \A f \in Frames :
                 fr # <<>> /\ f.kind = fr[Len(fr)].kind /\ f.mod = fr[Len(fr)].mod
                 => Waits([fr EXCEPT ![Len(fr)] = f], m) = Waits(fr, m)
<1> DEFINE T == SyncOn(m)
<1>1. \A f \in Frames : f \in T <=> f.kind = "sync" /\ f.mod = m
  BY DEF SyncOn
<1>2. Waits(fr, m) \in Nat
  BY PlacesFinite DEF Waits
<1>3. ASSUME NEW f \in Frames
      PROVE  Waits(Append(fr, f), m)
                 = IF f.kind = "sync" /\ f.mod = m THEN Waits(fr, m) + 1 ELSE Waits(fr, m)
  <2> HIDE DEF T
  <2>1. Cardinality(Places(Append(fr, f), T))
             = IF f \in T THEN Cardinality(Places(fr, T)) + 1 ELSE Cardinality(Places(fr, T))
    BY PlacesAppend
  <2> QED BY <1>1, <2>1 DEF Waits, T
<1>4. ASSUME fr # <<>>
      PROVE  Waits(fr, m)
                 = IF fr[Len(fr)].kind = "sync" /\ fr[Len(fr)].mod = m
                   THEN Waits(SubSeq(fr, 1, Len(fr) - 1), m) + 1
                   ELSE Waits(SubSeq(fr, 1, Len(fr) - 1), m)
  <2> DEFINE g == SubSeq(fr, 1, Len(fr) - 1)
  <2> HIDE DEF T
  <2>1. Cardinality(Places(fr, T))
             = IF fr[Len(fr)] \in T THEN Cardinality(Places(g, T)) + 1
               ELSE Cardinality(Places(g, T))
    BY <1>4, PlacesFront
  <2>2. fr[Len(fr)] \in Frames
    BY <1>4
  <2> HIDE DEF g
  <2>3. Waits(fr, m) = IF fr[Len(fr)].kind = "sync" /\ fr[Len(fr)].mod = m
                       THEN Waits(g, m) + 1 ELSE Waits(g, m)
    BY <1>1, <2>1, <2>2 DEF Waits, T
  <2> QED BY <2>3 DEF g
<1>5. ASSUME NEW f \in Frames, fr # <<>>, f.kind = fr[Len(fr)].kind, f.mod = fr[Len(fr)].mod
      PROVE  Waits([fr EXCEPT ![Len(fr)] = f], m) = Waits(fr, m)
  <2>1. Len(fr) \in DOMAIN fr /\ fr[Len(fr)] \in Frames
    BY <1>5
  <2>2. f \in T <=> fr[Len(fr)] \in T
    BY <1>1, <1>5, <2>1
  <2> HIDE DEF T
  <2>3. Places([fr EXCEPT ![Len(fr)] = f], T) = Places(fr, T)
    BY <2>1, <2>2, PlacesReplace
  <2> QED BY <2>3 DEF Waits, T
<1> QED BY <1>2, <1>3, <1>4, <1>5

LEMMA WaitingIs ==
    ASSUME IInv, NEW m \in Modules
    PROVE  /\ Cardinality(Waiting(m)) = Waits(frames, m)
           /\ Cardinality(Answers(m)) = Cardinality(Places(inbox[m], Unlocks))
           /\ Cardinality(Answers(m)) \in Nat
           /\ IsFiniteSet(ToAnswer(m)) /\ Cardinality(ToAnswer(m)) \in Nat
<1>1. frames \in Seq(Frames) /\ inbox[m] \in Seq(Input) /\ log[m] \in Seq(Kinds)
  BY DEF IInv, StackOK, OtherTypes, StreamTypes
<1>2. Waiting(m) = Places(frames, SyncOn(m))
  <2>1. \A d \in DOMAIN frames : frames[d] \in Frames
    BY <1>1
  <2> QED BY <2>1 DEF Waiting, Places, SyncOn
<1>3. Answers(m) = Places(inbox[m], Unlocks)
  <2>1. \A d \in DOMAIN inbox[m] : inbox[m][d] \in Input
    BY <1>1
  <2> QED BY <2>1 DEF Answers, Places, Unlocks
<1>4. Cardinality(Answers(m)) \in Nat
  BY <1>1, <1>3, PlacesFinite
<1>5. IsFiniteSet(ToAnswer(m)) /\ Cardinality(ToAnswer(m)) \in Nat
  <2>1. ToAnswer(m) \subseteq 1 .. Len(log[m]) /\ Len(log[m]) \in Nat
    BY <1>1 DEF ToAnswer
  <2>2. IsFiniteSet(1 .. Len(log[m]))
    BY <2>1, FS_Interval
  <2> QED BY <2>1, <2>2, FS_Subset, FS_CardinalityType
<1> QED BY <1>2, <1>3, <1>4, <1>5 DEF Waits

Counted == \A m \in Modules : /\ Cardinality(Waiting(m)) = Waits(frames, m)
                               /\ Cardinality(Answers(m)) \in Nat
                               /\ Cardinality(ToAnswer(m)) \in Nat

LEMMA WaitingCounted == IInv => Counted
BY WaitingIs DEF Counted

(* Apart from those that accept messages, no action makes one more wait. *)
FewerWait == {fr \in Seq(Frames) : \A m \in Modules : Waits(fr, m) <= Waits(frames, m)}

LEMMA Kept ==
    ASSUME IInv, NEW f \in Frames, f.kind = Top.kind, f.mod = Top.mod
    PROVE  Become(f) \in FewerWait
<1>1. frames \in Seq(Frames) /\ frames # <<>> /\ Depth = Len(frames) /\ Top = frames[Len(frames)]
  BY DEF IInv, StackOK, Depth, Top
<1>2. Become(f) = [frames EXCEPT ![Len(frames)] = f]
  BY <1>1 DEF Become
<1>3. Become(f) \in Seq(Frames)
  BY <1>1, <1>2, LastFacts
<1>4. ASSUME NEW m \in Modules PROVE Waits(Become(f), m) <= Waits(frames, m)
  <2>1. f.kind = frames[Len(frames)].kind /\ f.mod = frames[Len(frames)].mod
    BY <1>1
  <2>2. Waits(frames, m) \in Nat /\ Waits([frames EXCEPT ![Len(frames)] = f], m) = Waits(frames, m)
    BY <1>1, <2>1, WaitsFacts
  <2>3. Waits(Become(f), m) = Waits(frames, m)
    BY <1>2, <2>2
  <2> QED BY <2>2, <2>3
<1> QED BY <1>3, <1>4 DEF FewerWait

LEMMA PushedKeeps ==
    ASSUME NEW fr \in FewerWait, NEW f \in Frames, f.kind # "sync"
    PROVE  Append(fr, f) \in FewerWait
<1>1. fr \in Seq(Frames) /\ Append(fr, f) \in Seq(Frames)
  BY AppendFacts DEF FewerWait
<1>2. ASSUME NEW m \in Modules PROVE Waits(Append(fr, f), m) <= Waits(frames, m)
  <2>1. Waits(Append(fr, f), m) = Waits(fr, m)
    BY <1>1, WaitsFacts
  <2> QED BY <2>1 DEF FewerWait
<1> QED BY <1>1, <1>2 DEF FewerWait

(* The frames that are pushed onto the stack in Closed do not wait. *)
LEMMA NotSync ==
    ASSUME IInv
    PROVE  /\ LoopFrame \in Frames /\ LoopFrame.kind = "loop"
           /\ \A k \in Kinds : BroadcastFrame(k) \in Frames /\ BroadcastFrame(k).kind = "bcast"
           /\ \A m \in 0 .. MaxModules :
                 FlushFrame(m) \in Frames /\ FlushFrame(m).kind = "flush" /\ FlushFrame(m).mod = m
           /\ \A m \in 0 .. MaxModules, no \in Nat :
                 /\ SyncFrame(m, no) \in Frames
                 /\ SyncFrame(m, no).kind = "sync" /\ SyncFrame(m, no).mod = m
           /\ \A m \in 0 .. MaxModules, cmd \in Seq(Ops) :
                 CmdFrame(m, cmd) \in Frames /\ CmdFrame(m, cmd).kind = "cmd"
<1>1. 0 \in Nat /\ 0 \in 0 .. MaxModules /\ <<>> \in Seq(Ops) /\ RecordTypes
  BY Numbers DEF IInv
<1>2. LoopFrame \in Frames /\ LoopFrame.kind = "loop"
  BY <1>1, NewFrames
<1>3. ASSUME NEW k \in Kinds
      PROVE  BroadcastFrame(k) \in Frames /\ BroadcastFrame(k).kind = "bcast"
  BY <1>1, SoundNew DEF SoundFrames, BroadcastFrame, Frame
<1>4. ASSUME NEW m \in 0 .. MaxModules, NEW no \in Nat
      PROVE  /\ FlushFrame(m) \in Frames /\ FlushFrame(m).kind = "flush" /\ FlushFrame(m).mod = m
             /\ SyncFrame(m, no) \in Frames
             /\ SyncFrame(m, no).kind = "sync" /\ SyncFrame(m, no).mod = m
  <2>1. /\ FlushFrame(m) \in Frames /\ FlushFrame(m).mod = m
        /\ SyncFrame(m, no) \in Frames /\ SyncFrame(m, no).mod = m
    BY <1>1, NewFrames
  <2>2. FlushFrame(m).kind = "flush" /\ SyncFrame(m, no).kind = "sync"
    BY DEF FlushFrame, SyncFrame, Frame
  <2> QED BY <2>1, <2>2, Zenon
<1>5. ASSUME NEW m \in 0 .. MaxModules, NEW cmd \in Seq(Ops)
      PROVE  CmdFrame(m, cmd) \in Frames /\ CmdFrame(m, cmd).kind = "cmd"
  BY <1>1, NewFrames
<1> QED BY <1>1, <1>2, <1>3, <1>4, <1>5, Zenon

LEMMA FewerClosed ==
    ASSUME IInv
    PROVE  Closed(FewerWait) /\ frames \in FewerWait
<1> DEFINE P == FewerWait
<1>1. /\ StackOK(frames) /\ RecordTypes /\ OtherTypes /\ Top \in Frames /\ FrameOK(Top)
      /\ frames \in Seq(Frames) /\ frames # <<>> /\ Depth = Len(frames)
      /\ Top = frames[Len(frames)] /\ Top.mod \in 0 .. MaxModules
      /\ list \subseteq 0 .. MaxModules /\ 0 \in 0 .. MaxModules
  <2>1. StackOK(frames) /\ RecordTypes /\ OtherTypes /\ Top \in Frames /\ FrameOK(Top)
    BY TopFacts DEF IInv
  <2>2. frames \in Seq(Frames) /\ frames # <<>>
    BY <2>1 DEF StackOK
  <2>3. Depth = Len(frames) /\ Top = frames[Len(frames)]
    BY DEF Depth, Top
  <2>4. Top.mod \in 0 .. MaxModules
    BY <2>1 DEF Frames
  <2>5. list \subseteq 0 .. MaxModules
    BY <2>1, Numbers DEF RecordTypes, Modules
  <2>6. 0 \in 0 .. MaxModules
    BY Numbers
  <2> QED BY <2>1, <2>2, <2>3, <2>4, <2>5, <2>6, Zenon
<1>2. frames \in P
  <2>1. \A m \in Modules : Waits(frames, m) \in Nat
    BY <1>1, WaitsFacts
  <2> QED BY <1>1, <2>1 DEF FewerWait
<1>3. Callers \in P
  <2> DEFINE g == SubSeq(frames, 1, Len(frames) - 1)
  <2>1. Callers = g /\ g \in Seq(Frames)
    BY <1>1, FrontFacts DEF Callers
  <2>2. ASSUME NEW m \in Modules PROVE Waits(g, m) <= Waits(frames, m)
    <3>1. Waits(g, m) \in Nat /\ Waits(frames, m) \in Nat
      BY <1>1, <2>1, WaitsFacts
    <3>2. Waits(frames, m) = Waits(g, m) + 1 \/ Waits(frames, m) = Waits(g, m)
      BY <1>1, WaitsFacts
    <3> HIDE DEF g
    <3> QED BY <3>1, <3>2
  <2> HIDE DEF g
  <2> QED BY <2>1, <2>2 DEF FewerWait
<1>4. ASSUME At("cmd"), Top.rest # <<>> PROVE Rest \in P
  <2>1. Tail(Top.rest) \in Seq(Ops)
    BY <1>1, <1>4, TailFacts DEF Frames
  <2> DEFINE f == [Top EXCEPT !.rest = Tail(Top.rest)]
  <2>2. f \in Frames /\ f.kind = Top.kind /\ f.mod = Top.mod
    BY <1>1, <2>1 DEF Frames
  <2> HIDE DEF f
  <2> QED BY <2>2, Kept DEF Rest, f
<1>5. \A f \in Frames : f.kind = "loop" /\ At("loop") => Become(f) \in P
  <2> SUFFICES ASSUME NEW f \in Frames, f.kind = "loop", At("loop") PROVE Become(f) \in P
    OBVIOUS
  <2>1. Become(f) \in Seq(Frames) /\ Become(f) = [frames EXCEPT ![Len(frames)] = f]
    BY <1>1, LastFacts DEF Become
  <2>2. ASSUME NEW m \in Modules PROVE Waits(Become(f), m) <= Waits(frames, m)
    <3>1. f \notin SyncOn(m) /\ Top \notin SyncOn(m)
      BY DEF SyncOn, At
    <3>2. Len(frames) \in DOMAIN frames
      BY <1>1
    <3>3. Places([frames EXCEPT ![Len(frames)] = f], SyncOn(m)) = Places(frames, SyncOn(m))
      <4>1. f \in SyncOn(m) <=> frames[Len(frames)] \in SyncOn(m)
        BY <1>1, <3>1
      <4>2. frames \in Seq(Frames)
        BY <1>1
      <4> QED BY <3>2, <4>1, <4>2, PlacesReplace
    <3>4. Waits(frames, m) \in Nat
      BY <1>1, WaitsFacts
    <3>5. Waits(Become(f), m) = Waits(frames, m)
      BY <2>1, <3>3 DEF Waits
    <3> QED BY <3>4, <3>5
  <2> QED BY <2>1, <2>2 DEF FewerWait
<1>6. \A fr \in P, f \in Frames : f.kind # "sync" => Append(fr, f) \in P
  BY PushedKeeps
<1>7. /\ LoopFrame \in Frames /\ LoopFrame.kind = "loop"
      /\ \A k \in Kinds : BroadcastFrame(k) \in Frames /\ BroadcastFrame(k).kind = "bcast"
      /\ \A m \in 0 .. MaxModules : FlushFrame(m) \in Frames /\ FlushFrame(m).kind = "flush"
      /\ \A m \in 0 .. MaxModules, cmd \in Seq(Ops) :
            CmdFrame(m, cmd) \in Frames /\ CmdFrame(m, cmd).kind = "cmd"
  BY NotSync
<1>8. ASSUME NEW cmd \in EventInputs PROVE CmdFrame(0, cmd) \in Frames /\ CmdFrame(0, cmd).kind = "cmd"
  <2>1. cmd \in Seq(Ops)
    BY Numbers
  <2> QED BY <1>1, <1>7, <2>1
<1>9. ASSUME cqueue # <<>>
      PROVE  /\ CmdFrame(Head(cqueue).mod, Head(cqueue).cmd) \in Frames
             /\ CmdFrame(Head(cqueue).mod, Head(cqueue).cmd).kind = "cmd"
  <2>1. Head(cqueue) \in Entry
    BY <1>1, <1>9, TailFacts DEF OtherTypes
  <2>2. Head(cqueue).mod \in 0 .. MaxModules /\ Head(cqueue).cmd \in Seq(Ops)
    BY <2>1 DEF Entry
  <2> QED BY <1>7, <2>2
<1>10. ASSUME At("sync"), inbox[Top.mod] # <<>>
       PROVE  /\ CmdFrame(Top.mod, Head(inbox[Top.mod]).cmd) \in Frames
              /\ CmdFrame(Top.mod, Head(inbox[Top.mod]).cmd).kind = "cmd"
  <2>1. inbox[Top.mod] \in Seq(Input)
    BY <1>1, <1>10 DEF OtherTypes, FrameOK, At
  <2>2. Head(inbox[Top.mod]) \in Input
    BY <1>10, <2>1, TailFacts
  <2>3. Head(inbox[Top.mod]).cmd \in Seq(Ops)
    BY <2>2 DEF Input
  <2> QED BY <1>1, <1>7, <2>3
<1> HIDE DEF P
<1>11. Closed(P)
  <2>1. At("cmd") /\ Top.rest # <<>> =>
          /\ Rest \in P
          /\ \A k \in Kinds : Append(Rest, BroadcastFrame(k)) \in P
          /\ Append(Rest, LoopFrame) \in P
    BY <1>4, <1>6, <1>7
  <2>2. \A f \in Frames : f.kind = "loop" /\ At("loop") =>
          /\ Become(f) \in P
          /\ \A m \in list : Append(Become(f), FlushFrame(m)) \in P
    BY <1>1, <1>5, <1>6, <1>7
  <2>3. \A cmd \in EventInputs : /\ Append(frames, CmdFrame(0, cmd)) \in P
                                 /\ Append(Callers, CmdFrame(0, cmd)) \in P
    BY <1>2, <1>3, <1>6, <1>8
  <2>4. cqueue # <<>> => Append(frames, CmdFrame(Head(cqueue).mod, Head(cqueue).cmd)) \in P
    BY <1>2, <1>6, <1>9
  <2>5. At("sync") /\ inbox[Top.mod] # <<>> =>
          Append(frames, CmdFrame(Top.mod, Head(inbox[Top.mod]).cmd)) \in P
    BY <1>2, <1>6, <1>10
  <2> QED BY <1>3, <2>1, <2>2, <2>3, <2>4, <2>5 DEF Closed
<1> QED BY <1>2, <1>11 DEF P

(* How the numbers of one module change *)
LEMMA AnswersChange ==
    ASSUME IInv, NEW m \in Modules
    PROVE  /\ \A x \in Input : inbox'[m] = Append(inbox[m], x) =>
                 Cardinality(Answers(m)') = IF x.unlock THEN Cardinality(Answers(m)) + 1
                                            ELSE Cardinality(Answers(m))
           /\ inbox[m] # <<>> /\ inbox'[m] = Tail(inbox[m]) =>
                 Cardinality(Answers(m)) = IF Head(inbox[m]).unlock
                                           THEN Cardinality(Answers(m)') + 1
                                           ELSE Cardinality(Answers(m)')
<1> DEFINE U == Unlocks
<1>1. inbox[m] \in Seq(Input)
  BY DEF IInv, OtherTypes
<1>2. \A x \in Input : x \in U <=> x.unlock
  BY DEF Unlocks
<1>3. \A s \in Seq(Input) : {i \in DOMAIN s : s[i].unlock} = Places(s, U)
  <2> SUFFICES ASSUME NEW s \in Seq(Input) PROVE {i \in DOMAIN s : s[i].unlock} = Places(s, U)
    OBVIOUS
  <2>1. \A i \in DOMAIN s : s[i] \in Input
    OBVIOUS
  <2> QED BY <1>2, <2>1 DEF Places
<1>4. Answers(m) = Places(inbox[m], U)
  BY <1>1, <1>3 DEF Answers
<1>5. inbox'[m] \in Seq(Input) => Answers(m)' = Places(inbox'[m], U)
  BY <1>3 DEF Answers
<1> HIDE DEF U
<1>6. ASSUME NEW x \in Input, inbox'[m] = Append(inbox[m], x)
      PROVE  Cardinality(Answers(m)') = IF x.unlock THEN Cardinality(Answers(m)) + 1
                                        ELSE Cardinality(Answers(m))
  <2>1. Append(inbox[m], x) \in Seq(Input)
    BY <1>1
  <2>2. Answers(m)' = Places(Append(inbox[m], x), U)
    BY <1>5, <1>6, <2>1
  <2>3. Cardinality(Places(Append(inbox[m], x), U))
          = IF x \in U THEN Cardinality(Places(inbox[m], U)) + 1
            ELSE Cardinality(Places(inbox[m], U))
    BY <1>1, PlacesAppend
  <2> QED BY <1>2, <1>4, <2>2, <2>3
<1>7. ASSUME inbox[m] # <<>>, inbox'[m] = Tail(inbox[m])
      PROVE  Cardinality(Answers(m)) = IF Head(inbox[m]).unlock
                                       THEN Cardinality(Answers(m)') + 1
                                       ELSE Cardinality(Answers(m)')
  <2>1. Tail(inbox[m]) \in Seq(Input) /\ Head(inbox[m]) \in Input
    BY <1>1, <1>7, TailFacts
  <2>2. Answers(m)' = Places(Tail(inbox[m]), U)
    BY <1>5, <1>7, <2>1
  <2>3. Cardinality(Places(inbox[m], U))
          = IF Head(inbox[m]) \in U THEN Cardinality(Places(Tail(inbox[m]), U)) + 1
            ELSE Cardinality(Places(Tail(inbox[m]), U))
    BY <1>1, <1>7, PlacesTail
  <2> QED BY <1>2, <1>4, <2>1, <2>2, <2>3
<1> QED BY <1>6, <1>7

(* A module has not received more than it was sent. *)
Received == \A m \in Modules : got[m] \div Size <= Len(log[m])

LEMMA ReceivedBound == IInv => Received
<1> SUFFICES ASSUME IInv, NEW m \in Modules PROVE got[m] \div Size <= Len(log[m])
  BY DEF Received
<1> DEFINE n == Len(log[m])
           g == got[m] \div Size
<1>1. /\ log[m] \in Seq(Kinds) /\ n \in Nat
      /\ got[m] \in Nat /\ Size \in Nat /\ Size > 0
  BY Numbers DEF IInv, StreamTypes
<1>2. \A x \in Nat : got[m] <= x * Size => g <= x
  BY <1>1, DivNext
<1>3. g <= n
  <2>1. /\ got[m] + Len(pipe[m]) = (n - Len(queue[m])) * Size + done[m]
        /\ queue[m] = <<>> => done[m] = 0
        /\ Len(pipe[m]) \in Nat /\ Len(queue[m]) \in Nat /\ done[m] \in 0 .. Size - 1
        /\ Len(queue[m]) = 0 => queue[m] = <<>>
    BY DEF IInv, StreamIntact, StreamTypes
  <2> HIDE DEF n, g
  <2>2. got[m] <= n * Size
    <3> DEFINE q == Len(queue[m])
    <3>1. q \in Nat /\ got[m] <= (n - q) * Size + done[m]
      <4>1. PICK a \in Int : a = (n - q) * Size
        BY <1>1, <2>1
      <4> QED BY <1>1, <2>1, <4>1
    <3> HIDE DEF q
    <3>2. (n - q) * Size = n * Size - q * Size
      BY <1>1, <3>1
    <3>3. CASE q = 0
      BY <1>1, <2>1, <3>1, <3>2, <3>3 DEF q
    <3>4. CASE q > 0
      <4>1. q * Size >= Size
        BY <1>1, <3>1, <3>4
      <4>2. done[m] < Size /\ done[m] \in Nat
        BY <1>1, <2>1
      <4>3. PICK a \in Int : a = n * Size
        BY <1>1
      <4>4. PICK b \in Int : b = q * Size
        BY <1>1, <3>1
      <4> QED BY <1>1, <3>1, <3>2, <4>1, <4>2, <4>3, <4>4
    <3> QED BY <3>1, <3>3, <3>4
  <2> QED BY <1>1, <1>2, <2>2
<1> QED BY <1>3

(* Is the unit u the end of a message that m answers? *)
Ends(m, u) == u % Size = 0 /\ log[m][(u - 1) \div Size + 1] \in Locks[m]

LEMMA ToAnswerChange ==
    ASSUME IInv, NEW m \in Modules
    PROVE  /\ \A k \in Kinds : log'[m] = Append(log[m], k) /\ got'[m] = got[m] =>
                 Cardinality(ToAnswer(m)') = IF k \in Locks[m] THEN Cardinality(ToAnswer(m)) + 1
                                             ELSE Cardinality(ToAnswer(m))
           /\ log'[m] = log[m] /\ got'[m] = got[m] + 1 =>
                 \/ Cardinality(ToAnswer(m)') = Cardinality(ToAnswer(m))
                 \/ /\ Ends(m, got[m] + 1)
                    /\ Cardinality(ToAnswer(m)) = Cardinality(ToAnswer(m)') + 1
<1> DEFINE n == Len(log[m])
           g == got[m] \div Size
<1>1. /\ log[m] \in Seq(Kinds) /\ n \in Nat /\ DOMAIN log[m] = 1 .. n
      /\ got[m] \in Nat /\ Size \in Nat /\ Size > 0
  BY Numbers DEF IInv, StreamTypes
<1>2. /\ g \in Nat
      /\ (got[m] + 1) % Size = 0 => (got[m] + 1) \div Size = g + 1
      /\ (got[m] + 1) % Size # 0 => (got[m] + 1) \div Size = g
      /\ \A x \in Nat : got[m] <= x * Size => g <= x
  BY <1>1, DivNext
<1>3. g <= n
  BY ReceivedBound DEF Received
<1>4. IsFiniteSet(ToAnswer(m)) /\ Cardinality(ToAnswer(m)) \in Nat
  BY WaitingIs
<1>5. ToAnswer(m) = {i \in 1 .. n : i > g /\ log[m][i] \in Locks[m]}
  BY <1>1 DEF ToAnswer
<1> HIDE DEF n, g
<1>6. ASSUME NEW k \in Kinds, log'[m] = Append(log[m], k), got'[m] = got[m]
      PROVE  Cardinality(ToAnswer(m)') = IF k \in Locks[m] THEN Cardinality(ToAnswer(m)) + 1
                                         ELSE Cardinality(ToAnswer(m))
  <2>1. /\ DOMAIN log'[m] = 1 .. n + 1 /\ log'[m][n + 1] = k
        /\ \A i \in 1 .. n : log'[m][i] = log[m][i]
    BY <1>1, <1>6, AppendFacts DEF n
  <2>2. ToAnswer(m)' = {i \in 1 .. n + 1 : i > g /\ log'[m][i] \in Locks[m]}
    BY <1>6, <2>1 DEF ToAnswer, g
  <2>3. 1 .. n + 1 = 1 .. n \cup {n + 1} /\ n + 1 > g /\ n + 1 \notin 1 .. n
    BY <1>1, <1>2, <1>3
  <2>4. CASE k \in Locks[m]
    <3>1. ToAnswer(m)' = ToAnswer(m) \cup {n + 1} /\ n + 1 \notin ToAnswer(m)
      BY <1>5, <2>1, <2>2, <2>3, <2>4
    <3> QED BY <1>4, <2>4, <3>1, FS_AddElement
  <2>5. CASE k \notin Locks[m]
    <3>1. ToAnswer(m)' = ToAnswer(m)
      BY <1>5, <2>1, <2>2, <2>3, <2>5
    <3> QED BY <2>5, <3>1
  <2> QED BY <2>4, <2>5
<1>7. ASSUME log'[m] = log[m], got'[m] = got[m] + 1
      PROVE  \/ Cardinality(ToAnswer(m)') = Cardinality(ToAnswer(m))
             \/ /\ Ends(m, got[m] + 1)
                /\ Cardinality(ToAnswer(m)) = Cardinality(ToAnswer(m)') + 1
  <2>1. ToAnswer(m)' = {i \in 1 .. n : i > (got[m] + 1) \div Size /\ log[m][i] \in Locks[m]}
    BY <1>1, <1>7 DEF ToAnswer
  <2>2. CASE (got[m] + 1) % Size # 0
    <3>1. ToAnswer(m)' = ToAnswer(m)
      BY <1>2, <1>5, <2>1, <2>2
    <3> QED BY <3>1
  <2>3. CASE (got[m] + 1) % Size = 0
    <3>1. ToAnswer(m)' = {i \in 1 .. n : i > g + 1 /\ log[m][i] \in Locks[m]}
      BY <1>2, <2>1, <2>3
    <3>2. \A i \in 1 .. n : i > g <=> i > g + 1 \/ i = g + 1
      BY <1>1, <1>2
    <3>3. ~(g + 1 > g + 1)
      BY <1>2
    <3>4. CASE g + 1 \in ToAnswer(m)
      <4>1. ToAnswer(m)' = ToAnswer(m) \ {g + 1}
        BY <1>5, <3>1, <3>2, <3>3
      <4>2. Cardinality(ToAnswer(m)') = Cardinality(ToAnswer(m)) - 1
        BY <1>4, <3>4, <4>1, FS_RemoveElement
      <4>3. log[m][g + 1] \in Locks[m]
        BY <1>5, <3>4
      <4>4. ((got[m] + 1) - 1) \div Size + 1 = g + 1
        <5>1. (got[m] + 1) - 1 = got[m]
          BY <1>1
        <5> QED BY <5>1 DEF g
      <4> HIDE DEF g
      <4>5. Ends(m, got[m] + 1)
        BY <2>3, <4>3, <4>4, Zenon DEF Ends
      <4> QED BY <1>4, <4>2, <4>5
    <3>5. CASE g + 1 \notin ToAnswer(m)
      <4>1. ToAnswer(m)' = ToAnswer(m)
        BY <1>5, <3>1, <3>2, <3>3, <3>5
      <4> QED BY <4>1
    <3> QED BY <3>4, <3>5
  <2> QED BY <2>2, <2>3
<1> QED BY <1>6, <1>7

(* A message is accepted: fvwm waits for its answer only when there will be one. *)
LEMMA AcceptAnswered ==
    ASSUME LInv, IInv', Accepting, NEW m \in Modules
    PROVE  Answered(m)'
<1>1. /\ IInv /\ Top \in Frames /\ RecordTypes /\ StreamTypes /\ Top.mod \in 0 .. MaxModules
      /\ UNCHANGED <<inbox, got>>
  BY TopFacts DEF LInv, GInv, IInv, Frames, Accepting, Broadcast, CmdReplies, process
<1> DEFINE w == Cardinality(Waiting(m))
           a == Cardinality(Answers(m))
           t == Cardinality(ToAnswer(m))
<1>2. /\ w = Waits(frames, m) /\ a \in Nat /\ t \in Nat /\ w <= a + t /\ w \in Nat
  <2>1. frames \in Seq(Frames)
    BY <1>1 DEF IInv, StackOK
  <2> QED BY <1>1, <2>1, WaitingIs, WaitsFacts DEF LInv, Answered
<1>3. a' = a
  BY <1>1 DEF Answers
<1>4. w' = Waits(frames', m) /\ t' \in Nat
  <2>1. Counted'
    BY WaitingCounted, PTL
  <2> QED BY <2>1 DEF Counted, Waits
<1> HIDE DEF w, a, t
<1>5. SUFFICES w' <= a + t'
  BY <1>3 DEF Answered, w, a, t
<1>6. log' = log => t' = t
  BY <1>1 DEF ToAnswer, t
<1>7. ASSUME NEW fs \in FewerWait, NEW x \in Modules, NEW k \in Kinds, PositiveWrite(x, k, fs)
      PROVE  w' <= a + t'
  <2>1. Waits(fs, m) <= w /\ fs \in Seq(Frames) /\ Waits(fs, m) \in Nat
    BY <1>2, WaitsFacts DEF FewerWait
  <2>2. CASE ~Accepts(x, k)
    BY <1>2, <1>4, <1>6, <1>7, <2>1, <2>2 DEF PositiveWrite, queues
  <2>3. CASE Accepts(x, k)
    <3> DEFINE no == Len(log[x]) + 1
    <3>1. /\ log' = [log EXCEPT ![x] = Append(log[x], k)]
          /\ frames' = IF LocksOn(x, k) THEN Append(Append(fs, SyncFrame(x, no)), FlushFrame(x))
                       ELSE fs
      BY <1>7, <2>3 DEF PositiveWrite
    <3>2. no \in Nat /\ x \in 0 .. MaxModules
      BY <1>1, Numbers DEF StreamTypes
    <3>3. /\ SyncFrame(x, no) \in Frames /\ SyncFrame(x, no).kind = "sync"
          /\ SyncFrame(x, no).mod = x
          /\ FlushFrame(x) \in Frames /\ FlushFrame(x).kind = "flush"
      <4> HIDE DEF no
      <4> QED BY <1>1, <3>2, NotSync
    <3>4. log'[x] = Append(log[x], k) /\ (m # x => log'[m] = log[m])
      BY <1>1, <3>1 DEF StreamTypes
    <3> DEFINE sf == SyncFrame(x, no)
               ff == FlushFrame(x)
    <3> HIDE DEF no, sf, ff
    <3>5. /\ Append(fs, sf) \in Seq(Frames)
          /\ Waits(Append(fs, sf), m) = IF m = x THEN Waits(fs, m) + 1 ELSE Waits(fs, m)
      BY <2>1, <3>3, WaitsFacts, AppendFacts DEF sf
    <3>6. Waits(Append(Append(fs, sf), ff), m) = Waits(Append(fs, sf), m)
      BY <3>3, <3>5, WaitsFacts DEF ff
    <3>7. w' = IF LocksOn(x, k) /\ m = x THEN Waits(fs, m) + 1 ELSE Waits(fs, m)
      BY <1>4, <3>1, <3>5, <3>6 DEF sf, ff
    <3>8. CASE m = x
      <4>1. t' = IF k \in Locks[m] THEN t + 1 ELSE t
        BY <1>1, <3>4, <3>8, ToAnswerChange DEF t
      <4>2. LocksOn(x, k) => k \in Locks[m]
        BY <3>8 DEF LocksOn
      <4> QED BY <1>2, <2>1, <3>7, <4>1, <4>2
    <3>9. CASE m # x
      <4>1. t' = t
        BY <1>1, <3>4, <3>9 DEF ToAnswer, t
      <4> QED BY <1>2, <2>1, <3>7, <3>9, <4>1
    <3> QED BY <3>8, <3>9
  <2> QED BY <2>2, <2>3
<1>8. ASSUME frames' \in FewerWait, UNCHANGED queues PROVE w' <= a + t'
  BY <1>2, <1>4, <1>6, <1>8 DEF FewerWait, queues
<1>9. ASSUME NEW fs \in FewerWait, NEW x \in Modules PROVE Append(fs, FlushFrame(x)) \in FewerWait
  <2>1. x \in 0 .. MaxModules
    BY Numbers
  <2>2. FlushFrame(x) \in Frames /\ FlushFrame(x).kind = "flush"
    BY <1>1, <2>1, NotSync
  <2> QED BY <2>2, PushedKeeps
<1>10. At("cmd") /\ Top.rest # <<>> => Rest \in FewerWait
  BY <1>1, FewerClosed DEF Closed
<1>11. At("bcast") /\ Top.itr \in Modules => BcastNext \in FewerWait
  <2> SUFFICES ASSUME At("bcast"), Top.itr \in Modules PROVE BcastNext \in FewerWait
    OBVIOUS
  <2> DEFINE f == [Top EXCEPT !.itr = ItrNext(Top.itr), !.seen = Top.seen \cup {Top.itr}]
  <2>1. f \in Frames /\ f.mod = Top.mod /\ f.kind = Top.kind
    <3>1. ItrNext(Top.itr) \in 0 .. MaxModules
      BY <1>1, IteratorType
    <3> QED BY <1>1, <3>1 DEF Frames
  <2> HIDE DEF f
  <2> QED BY <1>1, <2>1, Kept DEF BcastNext, f
<1>12. Reply \in Kinds /\ Top.msg \in Kinds
  BY <1>1, Numbers DEF Frames
<1> QED BY <1>1, <1>7, <1>8, <1>9, <1>10, <1>11, <1>12, AcceptStack

LEMMA AnsweredStep ==
    ASSUME LInv, IInv', Next, NEW m \in Modules
    PROVE  Answered(m)'
<1>1. /\ IInv /\ Top \in Frames /\ FrameOK(Top) /\ OtherTypes /\ RecordTypes /\ StreamTypes
      /\ frames \in Seq(Frames) /\ frames # <<>> /\ GInv
  BY TopFacts DEF LInv, GInv, IInv, StackOK
<1> DEFINE w == Cardinality(Waiting(m))
           a == Cardinality(Answers(m))
           t == Cardinality(ToAnswer(m))
<1>2. /\ w = Waits(frames, m) /\ a \in Nat /\ t \in Nat /\ w <= a + t /\ w \in Nat
  BY <1>1, WaitingIs, WaitsFacts DEF LInv, Answered
<1>3. w' = Waits(frames', m) /\ a' \in Nat /\ t' \in Nat /\ w' \in Nat
  <2>1. Counted'
    BY WaitingCounted, PTL
  <2>4. frames' \in Seq(Frames)
    BY DEF IInv, StackOK
  <2>5. Waits(frames', m) \in Nat
    BY <2>4, WaitsFacts
  <2> QED BY <2>1, <2>5 DEF Counted, Waits
<1>4. CASE Accepting
  BY <1>4, AcceptAnswered
<1> SUFFICES ASSUME ~Accepting PROVE Answered(m)'
  BY <1>4
<1>5. w' <= w
  <2>1. frames' \in FewerWait
    BY <1>1, QuietStack, FewerClosed
  <2> QED BY <1>2, <1>3, <2>1 DEF FewerWait
<1> HIDE DEF w, a, t
<1> SUFFICES w' <= a' + t'
  BY DEF Answered, w, a, t
<1>6. inbox' = inbox => a' = a
  BY DEF Answers, a
<1>7. log' = log /\ got' = got => t' = t
  BY DEF ToAnswer, t
<1>8. CASE UNCHANGED <<inbox, log, got>>
  BY <1>2, <1>3, <1>5, <1>6, <1>7, <1>8
<1>9. CASE Write \/ Command
  BY <1>8, <1>9 DEF Accepting, Write, BroadcastEnds, FlushWrites, FlushEnds, FlushFails,
                FlushTimeout, Command, CmdBroadcasts, CmdKills, CmdStarts, CmdWaits, CmdGrabs,
                CmdDoesNothing, CmdEnds, process, queues
<1>10. CASE SyncEof \/ SyncTimeout \/ Event
  BY <1>8, <1>10 DEF SyncEof, SyncTimeout, Event, process, queues
<1>11. CASE SelectReturns \/ ScanEof \/ ScanWrites \/ ScanEnds \/ QueueExecutes \/ Cleanup
  BY <1>8, <1>11 DEF SelectReturns, ScanEof, ScanWrites, ScanEnds, QueueExecutes, Cleanup,
                     process, queues
<1>12. CASE SyncReceive
  <2>1. /\ At("sync") /\ inbox[Top.mod] # <<>> /\ Top.mod \in Modules
        /\ inbox' = [inbox EXCEPT ![Top.mod] = Tail(inbox[Top.mod])]
        /\ Head(inbox[Top.mod]).unlock => frames' = Callers
        /\ UNCHANGED <<log, got>>
    BY <1>1, <1>12 DEF SyncReceive, TakeInput, FrameOK, At, queues, Return
  <2>2. CASE m # Top.mod
    <3>1. inbox'[m] = inbox[m]
      BY <1>1, <2>1, <2>2 DEF OtherTypes
    <3>2. a' = a
      BY <3>1 DEF Answers, a
    <3> QED BY <1>2, <1>3, <1>5, <1>7, <2>1, <3>2
  <2>3. CASE m = Top.mod
    <3>1. inbox'[m] = Tail(inbox[m]) /\ inbox[m] # <<>>
      BY <1>1, <2>1, <2>3 DEF OtherTypes
    <3>2. a = IF Head(inbox[m]).unlock THEN a' + 1 ELSE a'
      BY <1>1, <3>1, AnswersChange DEF a
    <3>3. CASE Head(inbox[m]).unlock
      <4>1. w' = Waits(SubSeq(frames, 1, Len(frames) - 1), m)
        BY <1>3, <2>1, <2>3, <3>3 DEF Callers, Depth
      <4>2. frames[Len(frames)].kind = "sync" /\ frames[Len(frames)].mod = m
        BY <2>1, <2>3 DEF At, Top, Depth
      <4>3. w = w' + 1
        BY <1>1, <1>2, <4>1, <4>2, WaitsFacts
      <4> QED BY <1>2, <1>3, <1>7, <2>1, <3>2, <3>3, <4>3
    <3>4. CASE ~Head(inbox[m]).unlock
      BY <1>2, <1>3, <1>5, <1>7, <2>1, <3>2, <3>4
    <3> QED BY <3>3, <3>4
  <2> QED BY <2>2, <2>3
<1>13. CASE ScanReads
  <2>1. At("loop")
    BY <1>13 DEF ScanReads, Scanning, InLoop
  <2>2. User(Top)
    BY <1>1, <2>1, GoodTop DEF Good, At, User
  <2>3. \A d \in DOMAIN frames : User(frames[d])
    BY <1>1, <2>2, GoodTop
  <2>4. Waiting(m) = {}
    BY <2>3 DEF Waiting, User
  <2>5. w = 0
    BY <2>4, FS_EmptySet DEF w
  <2> QED BY <1>2, <1>3, <1>5, <2>5
<1>14. ASSUME NEW x \in Modules, Process(x) PROVE w' <= a' + t'
  <2>1. CASE ProcReads(x)
    <3>1. /\ pipe[x] # <<>> /\ got' = [got EXCEPT ![x] = Head(pipe[x])] /\ log' = log
          /\ inbox' = IF Ends(x, Head(pipe[x]))
                      THEN [inbox EXCEPT ![x] = Append(inbox[x], Unlock)] ELSE inbox
      BY <2>1 DEF ProcReads, queues, Ends
    <3>2. Head(pipe[x]) = got[x] + 1
      <4>1. /\ queue[x] \in Seq(Nat) /\ pipe[x] \in Seq(Nat) /\ got[x] \in Nat
            /\ done[x] \in Nat /\ Len(log[x]) \in Nat
        BY <1>1, Numbers DEF StreamTypes
      <4>2. Intact(queue[x], done[x], pipe[x], got[x], Len(log[x]))
        BY <1>1, StreamIsIntact DEF IInv
      <4> QED BY <3>1, <4>1, <4>2, IntactRead
    <3>3. CASE m # x
      <4>1. got'[m] = got[m] /\ inbox'[m] = inbox[m] /\ log'[m] = log[m]
        BY <1>1, <3>1, <3>3 DEF StreamTypes, OtherTypes
      <4>2. a' = a /\ t' = t
        BY <4>1 DEF Answers, ToAnswer, a, t
      <4> QED BY <1>2, <1>3, <1>5, <4>2
    <3>4. CASE m = x
      <4>1. got'[m] = got[m] + 1 /\ log'[m] = log[m]
        BY <1>1, <3>1, <3>2, <3>4 DEF StreamTypes
      <4>2. t' = t \/ (Ends(m, got[m] + 1) /\ t = t' + 1)
        BY <1>1, <4>1, ToAnswerChange DEF t
      <4>5. inbox' = IF Ends(m, got[m] + 1)
                     THEN [inbox EXCEPT ![x] = Append(inbox[x], Unlock)] ELSE inbox
        BY <3>1, <3>2, <3>4
      <4>3. CASE ~Ends(m, got[m] + 1)
        <5>1. t' = t /\ a' = a
          BY <1>6, <4>2, <4>3, <4>5
        <5> QED BY <1>2, <1>3, <1>5, <5>1
      <4>4. CASE Ends(m, got[m] + 1)
        <5>1. inbox'[m] = Append(inbox[m], Unlock) /\ Unlock \in Input /\ Unlock.unlock
          BY <1>1, <3>4, <4>4, <4>5, UnlockType DEF OtherTypes, Unlock
        <5>2. a' = a + 1
          BY <1>1, <5>1, AnswersChange DEF a
        <5>3. w <= a + t
          BY <1>2
        <5>4. CASE t' = t
          BY <1>2, <1>3, <1>5, <5>2, <5>3, <5>4
        <5>5. CASE t = t' + 1
          BY <1>2, <1>3, <1>5, <5>2, <5>3, <5>5
        <5> QED BY <4>2, <5>4, <5>5
      <4> QED BY <4>3, <4>4
    <3> QED BY <3>3, <3>4
  <2>2. CASE ProcSends(x)
    <3>1. PICK y \in Says : inbox' = [inbox EXCEPT ![x] = Append(inbox[x], y)]
      BY <2>2 DEF ProcSends
    <3>2. UNCHANGED <<log, got>>
      BY <2>2 DEF ProcSends, queues
    <3>3. y \in Input
      <4>1. [cmd : Inputs, quit : Quits, unlock : {FALSE}] \subseteq Input
        BY Numbers, LinkAssumption DEF LinkAssumption, Input
      <4> QED BY <4>1, UnlockType DEF Says
    <3>4. CASE m # x
      <4>1. inbox'[m] = inbox[m]
        BY <1>1, <3>1, <3>4 DEF OtherTypes
      <4>2. a' = a
        BY <4>1 DEF Answers, a
      <4> QED BY <1>2, <1>3, <1>5, <1>7, <3>2, <4>2
    <3>5. CASE m = x
      <4>1. inbox'[m] = Append(inbox[m], y)
        BY <1>1, <3>1, <3>5 DEF OtherTypes
      <4>2. a' = a + 1 \/ a' = a
        BY <1>1, <3>3, <4>1, AnswersChange DEF a
      <4> QED BY <1>2, <1>3, <1>5, <1>7, <3>2, <4>2
    <3> QED BY <3>4, <3>5
  <2>3. CASE ProcExits(x)
    BY <2>3, <1>8, Zenon DEF ProcExits, queues
  <2> QED BY <1>14, <2>1, <2>2, <2>3, Zenon DEF Process
<1> QED BY <1>9, <1>10, <1>11, <1>12, <1>13, <1>14 DEF Next, Fvwm, Wait, Round

(* However activations that wait for the same module are nested, none waits for
   an answer that another one took: PositiveWrite waits only after a message that
   the module answers, and only the waits read from a module while there is one. *)
THEOREM LockHasAnswerHolds == ASSUME ModulesNeverWait PROVE Spec => []LockHasAnswer
<1>1. Init => (\A m \in Modules : Answered(m))
  <2> SUFFICES ASSUME Init, NEW m \in Modules PROVE Answered(m)
    OBVIOUS
  <2>1. IInv
    BY InitInv
  <2>2. Waiting(m) = {}
    BY DEF Init, Waiting, LoopFrame, Frame
  <2>3. /\ Cardinality(Waiting(m)) = 0
        /\ Cardinality(Answers(m)) \in Nat /\ Cardinality(ToAnswer(m)) \in Nat
    BY <2>1, <2>2, FS_EmptySet, WaitingIs
  <2> QED BY <2>3 DEF Answered
<1>2. GInv /\ GInv' /\ (\A m \in Modules : Answered(m)) /\ [Next]_vars
        => (\A m \in Modules : Answered(m))'
  <2> SUFFICES ASSUME GInv, GInv', LInv, [Next]_vars, NEW m \in Modules PROVE Answered(m)'
    BY DEF LInv
  <2>1. CASE Next
    BY <2>1, AnsweredStep DEF GInv
  <2>2. CASE UNCHANGED vars
    BY <2>2 DEF vars, records, queues, process, LInv, Answered, Waiting, Answers, ToAnswer
  <2> QED BY <2>1, <2>2
<1>3. LInv => LockHasAnswer
  BY DEF LInv, GInv, IInv, RecordTypes, LockHasAnswer, Answered
<1> QED BY <1>1, <1>2, <1>3, GoodHolds, PTL DEF Spec, LInv

-----------------------------------------------------------------------------
(* The channel *)

LEMMA ChannelStep ==
    ASSUME GInv, IInv', [Next]_vars
    PROVE  [Channel!Next]_(Channel!vars)
<1>1. /\ IInv /\ RecordTypes /\ StreamTypes /\ FreedOnce /\ LogGood
      /\ started \in Nat /\ Size \in Nat /\ Size > 0
  BY Numbers DEF GInv, IInv, RecordTypes
<1> DEFINE open == (1 .. started) \ freed
           received == [m \in Modules |-> got[m] \div Size]
<1>2. ASSUME UNCHANGED <<started, freed, log, got>> PROVE UNCHANGED Channel!vars
  BY <1>2 DEF Channel!vars
<1>3. CASE UNCHANGED vars
  BY <1>2, <1>3 DEF vars, records, queues, process
<1>4. CASE Accepting
  <2>1. UNCHANGED <<started, freed, got>>
    BY <1>4 DEF Accepting, Broadcast, CmdReplies, records, process
  <2>2. CASE UNCHANGED queues
    BY <1>2, <2>1, <2>2 DEF queues
  <2>3. ASSUME NEW m \in (1 .. started) \ freed, NEW k \in Kinds, NEW fs,
               PositiveWrite(m, k, fs), m \in Modules
        PROVE  [Channel!Next]_(Channel!vars)
    <3>1. log' = [log EXCEPT ![m] = Append(log[m], k)] \/ UNCHANGED queues
      BY <2>3 DEF PositiveWrite
    <3>2. log' = [log EXCEPT ![m] = Append(log[m], k)] => Channel!Send(m, k)
      BY <2>1, <2>3 DEF Channel!Send
    <3> QED BY <2>2, <2>3, <3>1, <3>2 DEF Channel!Next
  <2> QED BY <1>4, <2>2, <2>3, GoodAccept
<1>5. CASE CmdStarts
  <2>1. UNCHANGED <<freed, log, got>>
    BY <1>5 DEF CmdStarts, queues
  <2>2. CASE started' = started
    BY <1>2, <2>1, <2>2
  <2>3. CASE started < MaxModules /\ started' = started + 1
    <3>1. started + 1 \in Modules /\ started + 1 \notin 1 .. started /\ started + 1 > started
          /\ 1 .. started + 1 = 1 .. started \cup {started + 1}
      BY <1>1, <2>3, Numbers
    <3>2. started + 1 \notin freed
      BY <1>1, <3>1 DEF FreedOnce
    <3>3. log[started + 1] = <<>>
      BY <1>1, <3>1 DEF LogGood
    <3>4. open' = open \cup {started + 1} /\ started + 1 \notin open
      BY <2>1, <2>3, <3>1, <3>2
    <3>5. Channel!Open(started + 1)
      BY <2>1, <3>3, <3>4 DEF Channel!Open
    <3> QED BY <3>1, <3>5 DEF Channel!Next
  <2> QED BY <1>5, <2>2, <2>3 DEF CmdStarts
<1>6. CASE Cleanup
  <2>1. /\ UNCHANGED <<started, log, got>> /\ freed \subseteq freed'
    BY <1>6 DEF Cleanup, queues, process
  <2>2. Channel!Close
    BY <2>1 DEF Channel!Close
  <2> QED BY <2>2 DEF Channel!Next
<1>7. ASSUME NEW m \in Modules, ProcReads(m) PROVE [Channel!Next]_(Channel!vars)
  <2>1. /\ m \in open /\ pipe[m] # <<>> /\ UNCHANGED <<started, freed, log>>
        /\ got' = [got EXCEPT ![m] = Head(pipe[m])]
    BY <1>7 DEF ProcReads, Alive, records, queues
  <2>2. Head(pipe[m]) = got[m] + 1
    <3>1. /\ queue[m] \in Seq(Nat) /\ pipe[m] \in Seq(Nat) /\ got[m] \in Nat
          /\ done[m] \in Nat /\ Len(log[m]) \in Nat
      BY <1>1, Numbers DEF StreamTypes
    <3>2. Intact(queue[m], done[m], pipe[m], got[m], Len(log[m]))
      BY <1>1, StreamIsIntact DEF IInv
    <3> QED BY <2>1, <3>1, <3>2, IntactRead
  <2>3. got \in [Modules -> Nat] /\ got[m] \in Nat
    BY <1>1 DEF StreamTypes
  <2>4. got'[m] = got[m] + 1 /\ \A x \in Modules \ {m} : got'[x] = got[x]
    BY <2>1, <2>2, <2>3
  <2> DEFINE g == got[m] \div Size
             h == (got[m] + 1) \div Size
  <2>5. g \in Nat /\ (h = g + 1 \/ h = g)
    BY <1>1, <2>3, DivNext
  <2>6. got'[m] \div Size = h
    BY <2>4
  <2>7. h <= Len(log[m])
    <3>1. Received'
      BY ReceivedBound, PTL
    <3> QED BY <2>1, <2>6, <3>1 DEF Received
  <2>8. Len(log[m]) \in Nat
    BY <1>1 DEF StreamTypes
  <2> HIDE DEF h
  <2>9. received' = [received EXCEPT ![m] = h]
    <3>1. \A x \in Modules : received'[x] = IF x = m THEN h ELSE received[x]
      BY <2>4, <2>6
    <3>2. received' = [x \in Modules |-> IF x = m THEN h ELSE received[x]]
      BY <3>1
    <3> HIDE DEF g
    <3> QED BY <3>2
  <2>10. received[m] = g
    OBVIOUS
  <2> HIDE DEF g
  <2>11. CASE h = g + 1
    <3>1. received[m] < Len(log[m])
      BY <2>5, <2>7, <2>8, <2>10, <2>11
    <3>2. received' = [received EXCEPT ![m] = received[m] + 1]
      BY <2>9, <2>10, <2>11
    <3>3. Channel!Receive(m)
      BY <2>1, <3>1, <3>2 DEF Channel!Receive
    <3> QED BY <3>3 DEF Channel!Next
  <2>12. CASE h = g
    <3>1. received' = received
      BY <2>9, <2>10, <2>12
    <3> QED BY <2>1, <3>1 DEF Channel!vars
  <2> QED BY <2>5, <2>11, <2>12
<1> SUFFICES ASSUME Next, ~Accepting, ~CmdStarts, ~Cleanup, ~\E m \in Modules : ProcReads(m)
             PROVE  UNCHANGED <<started, freed, log, got>>
  BY <1>2, <1>3, <1>4, <1>5, <1>6, <1>7
<1> USE DEF records, queues, process
<1>8. CASE Write \/ Wait
  BY <1>8 DEF Write, BroadcastEnds, FlushWrites, FlushEnds, FlushFails, FlushTimeout, Wait,
              SyncReceive, SyncEof, SyncTimeout, Accepting
<1>9. CASE Command \/ Event
  BY <1>9 DEF Command, CmdBroadcasts, CmdKills, CmdWaits, CmdGrabs, CmdDoesNothing, CmdEnds,
              Event, Accepting
<1>10. CASE Round
  BY <1>10 DEF Round, SelectReturns, ScanReads, ScanEof, ScanWrites, ScanEnds, QueueExecutes
<1>11. ASSUME NEW m \in Modules, Process(m) PROVE UNCHANGED <<started, freed, log, got>>
  BY <1>11, Zenon DEF Process, ProcSends, ProcExits
<1> QED BY <1>8, <1>9, <1>10, <1>11 DEF Next, Fvwm

(* To each module fvwm is an ordered channel, open from its start until its record
   is freed: FlushMessageQueue's partial writes, nested broadcasts, kills and
   timeouts are steps of it or none. *)
THEOREM ChannelImplemented == ASSUME ModulesNeverWait PROVE Spec => ImplementsChannel
<1>1. Init => Channel!Init
  <2> SUFFICES ASSUME Init PROVE Channel!Init
    OBVIOUS
  <2>1. Size \in Nat /\ Size > 0 /\ 0 <= 0 * Size
    BY Numbers
  <2>2. 0 \div Size = 0
    BY <2>1, DivNext
  <2> QED BY <2>2 DEF Init, Channel!Init
<1>2. GInv /\ GInv' /\ [Next]_vars => [Channel!Next]_(Channel!vars)
  BY ChannelStep DEF GInv
<1> QED BY <1>1, <1>2, GoodHolds, PTL DEF Spec, ImplementsChannel, Channel!Spec

-----------------------------------------------------------------------------
(* Where the loops over the modules stand, if no module locks fvwm: PositiveWrite
   executes nothing then, and what a loop calls is only the flush of the module
   that the iterator has left. *)

NoLocks == \A m \in Modules : Locks[m] = {}

Loops(f) == f.kind = "bcast" \/ (f.kind = "loop" /\ f.pc = "scan")
NoSync(fr) == \A d \in DOMAIN fr : fr[d].kind # "sync"
Safe(fr, L) ==
    \A d \in DOMAIN fr : Loops(fr[d]) =>
        /\ fr[d].itr \in L \cup {0}
        /\ \/ d = Len(fr)
           \/ d + 1 = Len(fr) /\ fr[d + 1].kind = "flush" /\ fr[d + 1].mod # fr[d].itr

MayCall(f, g, L) == /\ f.kind # "flush"
                    /\ Loops(g) => g.itr \in L \cup {0}
                    /\ Loops(f) => g.kind = "flush" /\ g.mod # f.itr

(* A frame is pushed on one that has called nothing. *)
LEMMA SafePush ==
    ASSUME NEW fr \in Seq(Frames), fr # <<>>, NEW L, NEW f \in Frames, Safe(fr, L),
           fr[Len(fr)].kind # "flush",
           Loops(f) => f.itr \in L \cup {0},
           Loops(fr[Len(fr)]) => f.kind = "flush" /\ f.mod # fr[Len(fr)].itr
    PROVE  Safe(Append(fr, f), L)
<1> DEFINE n == Len(fr)
           g == Append(fr, f)
<1>1. /\ Len(g) = n + 1 /\ DOMAIN g = 1 .. n + 1 /\ g[n + 1] = f
      /\ \A d \in 1 .. n : g[d] = fr[d]
      /\ n \in Nat /\ n > 0 /\ DOMAIN fr = 1 .. n
  BY AppendFacts
<1>2. fr[n].kind # "flush" /\ (Loops(fr[n]) => f.kind = "flush" /\ f.mod # fr[n].itr)
  OBVIOUS
<1>3. \A d \in 1 .. n : Loops(fr[d]) => d = n /\ fr[d].itr \in L \cup {0}
  BY <1>1, <1>2 DEF Safe
<1> HIDE DEF g, n
<1>4. ASSUME NEW d \in 1 .. n + 1, Loops(g[d])
      PROVE  /\ g[d].itr \in L \cup {0}
             /\ d = n + 1 \/ (d + 1 = n + 1 /\ g[d + 1].kind = "flush" /\ g[d + 1].mod # g[d].itr)
  <2>1. CASE d = n + 1
    BY <1>1, <1>4, <2>1
  <2>2. CASE d # n + 1
    <3>1. d \in 1 .. n
      BY <1>1, <2>2
    <3>2. g[d] = fr[d]
      BY <1>1, <3>1
    <3>3. d = n /\ fr[d].itr \in L \cup {0}
      BY <1>3, <1>4, <3>1, <3>2
    <3> QED BY <1>1, <1>2, <1>4, <3>2, <3>3
  <2> QED BY <2>1, <2>2
<1>5. Safe(g, L)
  BY <1>1, <1>4 DEF Safe
<1> QED BY <1>5 DEF g

(* The top frame goes on, and the list changes as it likes. *)
LEMMA SafeBecome ==
    ASSUME NEW fr \in Seq(Frames), fr # <<>>, NEW K, NEW L, NEW f \in Frames, Safe(fr, K),
           fr[Len(fr)].kind # "flush",
           Loops(f) => f.itr \in L \cup {0}
    PROVE  Safe([fr EXCEPT ![Len(fr)] = f], L)
<1> DEFINE n == Len(fr)
           g == [fr EXCEPT ![n] = f]
<1>1. /\ Len(g) = n /\ DOMAIN g = 1 .. n /\ g[n] = f
      /\ \A d \in 1 .. n - 1 : g[d] = fr[d]
      /\ n \in Nat /\ n > 0 /\ DOMAIN fr = 1 .. n
  BY LastFacts
<1>2. \A d \in 1 .. n : Loops(fr[d]) => d = n
  BY <1>1 DEF Safe
<1> HIDE DEF g, n
<1>3. ASSUME NEW d \in 1 .. n, Loops(g[d]) PROVE d = n
  <2>1. CASE d # n
    <3>1. d \in 1 .. n - 1
      BY <1>1, <2>1
    <3>2. Loops(fr[d])
      BY <1>1, <1>3, <3>1
    <3> QED BY <1>2, <3>2
  <2> QED BY <2>1
<1>4. Safe(g, L)
  BY <1>1, <1>3 DEF Safe
<1> QED BY <1>4 DEF g, n

(* The top frame returns; if it is a flush, its module may be taken off the list. *)
LEMMA SafePop ==
    ASSUME NEW fr \in Seq(Frames), fr # <<>>, NEW K, NEW L, Safe(fr, K),
           \/ K \subseteq L
           \/ fr[Len(fr)].kind = "flush" /\ K \ {fr[Len(fr)].mod} \subseteq L
    PROVE  Safe(SubSeq(fr, 1, Len(fr) - 1), L)
<1> DEFINE n == Len(fr)
           g == SubSeq(fr, 1, n - 1)
<1>1. /\ Len(g) = n - 1 /\ DOMAIN g = 1 .. n - 1
      /\ \A d \in 1 .. n - 1 : g[d] = fr[d]
      /\ n \in Nat /\ n > 0 /\ DOMAIN fr = 1 .. n
  BY FrontFacts
<1>2. K \subseteq L \/ (fr[n].kind = "flush" /\ K \ {fr[n].mod} \subseteq L)
  OBVIOUS
<1>3. ASSUME NEW d \in 1 .. n - 1, Loops(fr[d])
      PROVE  d = n - 1 /\ fr[d].itr \in L \cup {0}
  <2>1. d \in DOMAIN fr /\ d # n
    <3> HIDE DEF n, g
    <3> QED BY <1>1
  <2>2. fr[d].itr \in K \cup {0} /\ d + 1 = n /\ fr[d + 1].mod # fr[d].itr
    BY <1>3, <2>1 DEF Safe
  <2> HIDE DEF n
  <2>3. fr[n].mod # fr[d].itr
    BY <2>2
  <2> QED BY <1>1, <1>2, <2>2, <2>3
<1> HIDE DEF g, n
<1>4. Safe(g, L)
  BY <1>1, <1>3 DEF Safe
<1> QED BY <1>4 DEF g, n

(* A stack that goes through no list *)
LEMMA SafeBare ==
    ASSUME NEW fr \in Seq(Frames), NEW L, NEW f \in Frames, ~Loops(f),
           \A d \in DOMAIN fr : ~Loops(fr[d])
    PROVE  Safe(Append(fr, f), L)
<1>1. /\ DOMAIN Append(fr, f) = 1 .. Len(fr) + 1 /\ Append(fr, f)[Len(fr) + 1] = f
      /\ \A d \in 1 .. Len(fr) : Append(fr, f)[d] = fr[d] /\ d \in DOMAIN fr
      /\ Len(fr) \in Nat
  BY AppendFacts
<1>2. \A d \in 1 .. Len(fr) + 1 : ~Loops(Append(fr, f)[d])
  <2> TAKE d \in 1 .. Len(fr) + 1
  <2>1. CASE d = Len(fr) + 1
    BY <1>1, <2>1
  <2>2. CASE d # Len(fr) + 1
    <3>1. d \in 1 .. Len(fr)
      BY <1>1, <2>2
    <3> QED BY <1>1, <3>1
  <2> QED BY <2>1, <2>2
<1> QED BY <1>1, <1>2 DEF Safe

(* What the actions do to the stack, once nobody waits for a module *)
LEMMA NextOfLess ==
    ASSUME RecordTypes, NEW m
    PROVE  NextOf(m) \in list \cup {0} /\ (NextOf(m) # 0 => NextOf(m) < m)
<1> DEFINE below == {y \in list : y < m}
<1>1. CASE below = {}
  BY <1>1 DEF NextOf
<1>2. CASE below # {}
  <2>1. below \subseteq 0 .. MaxModules
    <3>1. below \subseteq 1 .. MaxModules
      BY Numbers DEF RecordTypes
    <3> QED BY <3>1, Numbers
  <2>2. NextOf(m) = CHOOSE z \in below : \A y \in below : y <= z
    BY <1>2 DEF NextOf
  <2> HIDE DEF below
  <2>3. \E z \in below : \A y \in below : y <= z
    BY <1>2, <2>1, Numbers, GreatestNat
  <2>4. (CHOOSE z \in below : \A y \in below : y <= z) \in below
    BY <2>3, Zenon
  <2>5. NextOf(m) \in below
    BY <2>2, <2>4
  <2> QED BY <2>5 DEF below
<1> QED BY <1>1, <1>2

LEMMA NoSyncStep ==
    ASSUME IInv, NoLocks, Next, NoSync(frames)
    PROVE  NoSync(frames')
<1> DEFINE B == {f \in Frames : f.kind # "sync"}
<1>1. /\ StackOK(frames) /\ RecordTypes /\ StreamTypes /\ OtherTypes
      /\ Top \in Frames /\ FrameOK(Top) /\ Top.mod \in 0 .. MaxModules
  BY TopFacts DEF IInv, Frames
<1>2. frames \in Seq(B)
  BY <1>1 DEF StackOK, NoSync
<1>3. /\ Top \in B /\ (Depth > 1 => Callers \in Seq(B))
      /\ \A f \in B : Become(f) \in Seq(B)
      /\ \A fr \in Seq(B), f \in B : Append(fr, f) \in Seq(B)
  BY <1>2, Stacks
<1>4. /\ \A f \in Frames : f.kind # "sync" => f \in B
      /\ LoopFrame \in B
      /\ \A k \in Kinds : BroadcastFrame(k) \in B
      /\ \A m \in 0 .. MaxModules : FlushFrame(m) \in B
      /\ \A m \in 0 .. MaxModules, cmd \in Seq(Ops) : CmdFrame(m, cmd) \in B
  <2>1. 0 \in Nat /\ 0 \in 0 .. MaxModules /\ <<>> \in Seq(Ops)
    BY Numbers
  <2>2. \A k \in Kinds : BroadcastFrame(k) \in Frames /\ BroadcastFrame(k).kind = "bcast"
    <3>1. \A k \in Kinds : BroadcastFrame(k) \in Frames
      BY <1>1, SoundNew DEF SoundFrames
    <3> QED BY <3>1 DEF BroadcastFrame, Frame
  <2>3. \A m \in 0 .. MaxModules : FlushFrame(m) \in Frames /\ FlushFrame(m).kind = "flush"
    <3>1. \A m \in 0 .. MaxModules : FlushFrame(m) \in Frames
      BY <2>1, NewFrames
    <3> QED BY <3>1 DEF FlushFrame, Frame
  <2>4. LoopFrame \in Frames /\ LoopFrame.kind = "loop"
    BY <2>1, NewFrames
  <2>5. \A m \in 0 .. MaxModules, cmd \in Seq(Ops) :
            CmdFrame(m, cmd) \in Frames /\ CmdFrame(m, cmd).kind = "cmd"
    BY <2>1, NewFrames
  <2> HIDE DEF LoopFrame, CmdFrame, FlushFrame, BroadcastFrame
  <2> QED BY <2>2, <2>3, <2>4, <2>5
<1>5. At("cmd") /\ Top.rest # <<>> => Rest \in Seq(B)
  <2> SUFFICES ASSUME At("cmd"), Top.rest # <<>> PROVE Rest \in Seq(B)
    OBVIOUS
  <2>1. Tail(Top.rest) \in Seq(Ops)
    BY <1>1, TailFacts DEF Frames
  <2> DEFINE f == [Top EXCEPT !.rest = Tail(Top.rest)]
  <2>2. f \in Frames /\ f.kind # "sync"
    BY <1>1, <2>1 DEF Frames, At
  <2> HIDE DEF f, B
  <2> QED BY <1>3, <1>4, <2>2 DEF Rest, f
<1>6. 0 \in 0 .. MaxModules /\ list \subseteq 0 .. MaxModules /\ Modules \subseteq 0 .. MaxModules
  BY <1>1, Numbers DEF RecordTypes
<1>7. frames' \in Seq(B)
  <2> HIDE DEF B
  <2>1. CASE Accepting
    <3>1. ASSUME NEW fs \in Seq(B), NEW m \in Modules, NEW k, PositiveWrite(m, k, fs)
          PROVE  frames' \in Seq(B)
      <4>1. ~LocksOn(m, k)
        BY DEF NoLocks, LocksOn
      <4> QED BY <3>1, <4>1 DEF PositiveWrite
    <3>2. ASSUME At("bcast"), Top.itr \in list PROVE BcastNext \in Seq(B)
      <4> DEFINE f == [Top EXCEPT !.itr = ItrNext(Top.itr), !.seen = Top.seen \cup {Top.itr}]
      <4>1. f \in Frames /\ f.kind = "bcast"
        <5>1. ItrNext(Top.itr) \in 0 .. MaxModules
          BY <1>1, IteratorType
        <5>2. Top.itr \in Modules
          BY <1>1, <3>2 DEF RecordTypes
        <5> QED BY <1>1, <3>2, <5>1, <5>2 DEF Frames, At
      <4> HIDE DEF f
      <4> QED BY <1>3, <1>4, <4>1 DEF BcastNext, f
    <3>3. ASSUME NEW fs \in Seq(B), NEW m \in Modules PROVE Append(fs, FlushFrame(m)) \in Seq(B)
      BY <1>3, <1>4, <1>6
    <3> QED BY <1>5, <2>1, <3>1, <3>2, <3>3, AcceptStack
  <2>2. CASE ~Accepting
    <3>1. ASSUME NEW cmd \in EventInputs PROVE CmdFrame(0, cmd) \in B
      <4>1. cmd \in Seq(Ops)
        BY Numbers
      <4> QED BY <1>4, <1>6, <4>1
    <3>2. cqueue # <<>> => CmdFrame(Head(cqueue).mod, Head(cqueue).cmd) \in B
      <4> SUFFICES ASSUME cqueue # <<>> PROVE CmdFrame(Head(cqueue).mod, Head(cqueue).cmd) \in B
        OBVIOUS
      <4>1. Head(cqueue) \in Entry
        BY <1>1, TailFacts DEF OtherTypes
      <4> QED BY <1>4, <4>1 DEF Entry
    <3>3. ~At("sync")
      BY <1>3 DEF At, B
    <3> DEFINE P == Seq(B)
    <3>4. Closed(P)
      <4> HIDE DEF P
      <4>1. /\ (Depth > 1 => Callers \in P) /\ frames \in P
            /\ \A f \in B : Become(f) \in P
            /\ \A fr \in P, f \in B : Append(fr, f) \in P
            /\ (At("cmd") /\ Top.rest # <<>> => Rest \in P)
        BY <1>2, <1>3, <1>5 DEF P
      <4> QED BY <1>4, <1>6, <3>1, <3>2, <3>3, <4>1 DEF Closed
    <3> HIDE DEF P
    <3>5. frames' \in P
      BY <1>2, <2>2, <3>4, QuietStack DEF P
    <3> QED BY <3>5 DEF P
  <2> QED BY <2>1, <2>2
<1> QED BY <1>7 DEF NoSync
LEMMA IteratorStep ==
    ASSUME IInv, NoLocks, NoSync(frames), Safe(frames, list), Next
    PROVE  Safe(frames', list')
<1>1. /\ StackOK(frames) /\ RecordTypes /\ StreamTypes /\ OtherTypes
      /\ Top \in Frames /\ FrameOK(Top) /\ Top.mod \in 0 .. MaxModules
  BY TopFacts DEF IInv, Frames
<1>2. /\ frames \in Seq(Frames) /\ frames # <<>> /\ Depth = Len(frames) /\ Depth \in DOMAIN frames
      /\ Top = frames[Len(frames)] /\ DOMAIN frames = 1 .. Depth /\ Depth \in Nat
  BY <1>1 DEF StackOK, Depth, Top
<1>3. ~At("sync")
  BY <1>2 DEF NoSync, At
<1>4. 0 \in 0 .. MaxModules /\ list \subseteq 0 .. MaxModules /\ Modules \subseteq 0 .. MaxModules
      /\ list \subseteq Nat \ {0}
  <2>1. list \subseteq 1 .. MaxModules
    BY <1>1, Numbers DEF RecordTypes
  <2> QED BY <1>1, <2>1, Numbers DEF RecordTypes
<1>5. /\ \A m \in 0 .. MaxModules : FlushFrame(m) \in Frames /\ FlushFrame(m).kind = "flush"
                                    /\ FlushFrame(m).mod = m /\ ~Loops(FlushFrame(m))
      /\ LoopFrame \in Frames /\ ~Loops(LoopFrame)
      /\ \A m \in 0 .. MaxModules, cmd \in Seq(Ops) :
            CmdFrame(m, cmd) \in Frames /\ ~Loops(CmdFrame(m, cmd))
      /\ \A k \in Kinds : BroadcastFrame(k) \in Frames /\ BroadcastFrame(k).itr = ItrFirst
  <2>1. 0 \in Nat /\ <<>> \in Seq(Ops)
    BY Numbers
  <2>2. ASSUME NEW m \in 0 .. MaxModules
        PROVE  FlushFrame(m) \in Frames /\ FlushFrame(m).kind = "flush" /\ FlushFrame(m).mod = m
    <3>1. FlushFrame(m) \in Frames /\ FlushFrame(m).mod = m
      BY <2>1, NewFrames
    <3>2. FlushFrame(m).kind = "flush"
      BY DEF FlushFrame, Frame
    <3> QED BY <3>1, <3>2
  <2>3. LoopFrame \in Frames /\ ~Loops(LoopFrame)
    <3>1. LoopFrame \in Frames
      BY <1>4, <2>1, NewFrames
    <3>2. LoopFrame.kind = "loop" /\ LoopFrame.pc = "select"
      BY DEF LoopFrame, Frame
    <3> QED BY <3>1, <3>2 DEF Loops
  <2>4. \A m \in 0 .. MaxModules, cmd \in Seq(Ops) :
            CmdFrame(m, cmd) \in Frames /\ CmdFrame(m, cmd).kind = "cmd"
    BY <2>1, NewFrames
  <2>5. ASSUME NEW k \in Kinds
        PROVE  BroadcastFrame(k) \in Frames /\ BroadcastFrame(k).itr = ItrFirst
    <3>1. BroadcastFrame(k) \in Frames
      BY <1>1, SoundNew DEF SoundFrames
    <3>2. BroadcastFrame(k).itr = ItrFirst
      BY DEF BroadcastFrame, Frame
    <3> QED BY <3>1, <3>2
  <2> HIDE DEF LoopFrame, FlushFrame, CmdFrame, BroadcastFrame
  <2> QED BY <2>2, <2>3, <2>4, <2>5, Zenon DEF Loops
<1>6. \A m : /\ ItrNext(m) \in 0 .. MaxModules /\ ItrNext(m) \in list \cup {0}
             /\ m \in list => ItrNext(m) # m
  <2> TAKE m
  <2>1. ItrNext(m) \in list \cup {0} /\ (ItrNext(m) # 0 => ItrNext(m) < m)
    BY <1>1, NextOfLess DEF ItrNext
  <2>2. m \in list => ItrNext(m) # m
    BY <1>4, <2>1
  <2> QED BY <1>4, <2>1, <2>2
<1>7. ItrFirst \in 0 .. MaxModules /\ ItrFirst \in list \cup {0}
  <2>1. ItrFirst \in list \cup {0}
    BY <1>1, NextOfLess DEF ItrFirst
  <2> QED BY <1>4, <2>1
(* returning, going on, calling *)
<1>8. ASSUME Return, list \subseteq list' \/ (At("flush") /\ list \ {Top.mod} \subseteq list')
      PROVE  Safe(frames', list')
  <2>1. list \subseteq list' \/ (Top.kind = "flush" /\ list \ {Top.mod} \subseteq list')
    BY <1>8 DEF At
  <2>2. Safe(SubSeq(frames, 1, Len(frames) - 1), list')
    BY <1>2, <2>1, SafePop
  <2> QED BY <1>2, <1>8, <2>2 DEF Return, Callers
<1>9. ASSUME ~At("flush"), NEW f \in Frames, NEW L, Loops(f) => f.itr \in L \cup {0}
      PROVE  /\ Safe(Become(f), L) /\ Become(f) \in Seq(Frames)
             /\ \A g \in Frames : MayCall(f, g, L) => Safe(Append(Become(f), g), L)
  <2>1. Top.kind # "flush"
    BY <1>9 DEF At
  <2>2. Safe([frames EXCEPT ![Len(frames)] = f], L)
    BY <1>2, <1>9, <2>1, SafeBecome
  <2>3. Safe(Become(f), L)
    BY <1>2, <2>2 DEF Become
  <2>4. /\ Become(f) \in Seq(Frames) /\ Become(f) # <<>>
        /\ Become(f)[Len(Become(f))] = f
    BY <1>2, LastFacts DEF Become
  <2> QED BY <1>9, <2>3, <2>4, SafePush DEF MayCall
<1>10. ASSUME At("cmd"), Top.rest # <<>>, NEW L
       PROVE  /\ Safe(Rest, L)
              /\ \A g \in Frames : (Loops(g) => g.itr \in L \cup {0}) => Safe(Append(Rest, g), L)
  <2> DEFINE f == [Top EXCEPT !.rest = Tail(Top.rest)]
  <2>1. Tail(Top.rest) \in Seq(Ops)
    BY <1>1, <1>10, TailFacts DEF Frames
  <2>2. f \in Frames /\ f.kind = "cmd" /\ Rest = Become(f)
    BY <1>1, <1>10, <2>1 DEF Frames, At, Rest
  <2> HIDE DEF f
  <2>3. ~Loops(f) /\ f.kind # "flush" /\ ~At("flush")
    BY <1>10, <2>2 DEF Loops, At
  <2> QED BY <1>9, <2>2, <2>3 DEF MayCall
<1>11. ASSUME NEW f \in Frames, ~Loops(f), ~Loops(Top), ~At("flush")
       PROVE  Safe(Append(frames, f), list)
  <2>1. frames[Len(frames)].kind # "flush" /\ ~Loops(frames[Len(frames)])
    BY <1>2, <1>11 DEF At
  <2> QED BY <1>2, <1>11, <2>1, SafePush
<1>12. ASSUME NEW f \in Frames, ~Loops(f), ~Loops(Top), ~At("flush"), Depth > 1
       PROVE  Safe(Append(Callers, f), list)
  <2>1. \A d \in DOMAIN frames : ~Loops(frames[d])
    <3>1. Top.kind # "flush"
      BY <1>12 DEF At
    <3>2. ASSUME NEW d \in DOMAIN frames, Loops(frames[d]) PROVE FALSE
      <4>1. CASE d = Len(frames)
        BY <1>2, <1>12, <3>2, <4>1
      <4>2. CASE d + 1 = Len(frames) /\ frames[d + 1].kind = "flush"
        BY <1>2, <3>1, <4>2
      <4> QED BY <3>2, <4>1, <4>2 DEF Safe
    <3> QED BY <3>2
  <2>2. /\ Callers \in Seq(Frames) /\ DOMAIN Callers = 1 .. Depth - 1
        /\ \A d \in 1 .. Depth - 1 : Callers[d] = frames[d]
    BY <1>2, FrontFacts DEF Callers
  <2>3. \A d \in DOMAIN Callers : ~Loops(Callers[d])
    BY <1>2, <2>1, <2>2
  <2> QED BY <1>12, <2>2, <2>3, SafeBare
<1>13. ASSUME At("bcast"), Top.itr \in list
       PROVE  /\ Safe(BcastNext, list)
              /\ Safe(Append(BcastNext, FlushFrame(Top.itr)), list)
  <2> DEFINE f == [Top EXCEPT !.itr = ItrNext(Top.itr), !.seen = Top.seen \cup {Top.itr}]
             g == FlushFrame(Top.itr)
  <2>1. f \in Frames /\ f.kind = "bcast" /\ f.itr = ItrNext(Top.itr)
    <3>1. Top.itr \in Modules
      BY <1>1, <1>13 DEF RecordTypes
    <3> QED BY <1>1, <1>6, <1>13, <3>1 DEF Frames, At
  <2>2. g \in Frames /\ g.kind = "flush" /\ g.mod = Top.itr /\ ~Loops(g)
    BY <1>4, <1>5, <1>13
  <2>3. BcastNext = Become(f) /\ ~At("flush")
    BY <1>13 DEF BcastNext, At
  <2> HIDE DEF f, g
  <2>4. f.itr \in list \cup {0} /\ g.mod # f.itr
    BY <1>6, <1>13, <2>1, <2>2
  <2>5. f.kind # "flush"
    BY <2>1
  <2>6. Safe(Become(f), list) /\ Safe(Append(Become(f), g), list)
    BY <1>9, <2>1, <2>2, <2>3, <2>4, <2>5 DEF MayCall
  <2> QED BY <2>3, <2>6 DEF g
<1>14. CASE Accepting
  <2>1. list' = list
    BY <1>14 DEF Accepting, Broadcast, CmdReplies, records
  <2>2. ASSUME NEW fs, NEW m \in Modules, NEW k, PositiveWrite(m, k, fs) PROVE frames' = fs
    <3>1. ~LocksOn(m, k)
      BY DEF NoLocks, LocksOn
    <3> QED BY <2>2, <3>1 DEF PositiveWrite
  <2>3. ASSUME At("cmd"), Top.rest # <<>>
        PROVE  Safe(Rest, list) /\ Safe(Append(Rest, FlushFrame(Top.mod)), list)
    BY <1>1, <1>5, <1>10, <2>3
  <2> QED BY <1>13, <1>14, <2>1, <2>2, <2>3, AcceptStack
<1>15. CASE BroadcastEnds \/ FlushEnds \/ CmdEnds
  BY <1>8, <1>15 DEF BroadcastEnds, FlushEnds, CmdEnds, records
<1>16. CASE FlushFails \/ FlushTimeout
  BY <1>8, <1>16 DEF FlushFails, FlushTimeout, Kill
<1>17. CASE FlushWrites
  BY <1>17, Zenon DEF FlushWrites, records
<1>18. CASE CmdBroadcasts
  <2>1. PICK k \in Kinds : /\ At("cmd") /\ Top.rest # <<>> /\ list' = list
                           /\ frames' = Append(Rest, BroadcastFrame(k))
    BY <1>18 DEF CmdBroadcasts, Doing, records
  <2> QED BY <1>5, <1>7, <1>10, <2>1
<1>19. CASE CmdKills \/ CmdStarts \/ CmdGrabs \/ CmdDoesNothing
  BY <1>10, <1>19 DEF CmdKills, CmdStarts, CmdGrabs, CmdDoesNothing, Doing
<1>20. CASE CmdWaits
  BY <1>5, <1>10, <1>20 DEF CmdWaits, Doing, records
<1>21. CASE Event
  <2>1. PICK cmd \in EventInputs :
            \/ frames' = Append(frames, CmdFrame(0, cmd))
            \/ Depth > 1 /\ frames' = Append(Callers, CmdFrame(0, cmd))
    BY <1>21 DEF Event, Call
  <2>2. list' = list /\ ~Loops(Top) /\ ~At("flush")
    BY <1>21 DEF Event, records, InLoop, Loops, At
  <2>3. cmd \in Seq(Ops)
    BY Numbers
  <2> QED BY <1>4, <1>5, <1>11, <1>12, <2>1, <2>2, <2>3
<1>22. CASE SelectReturns
  <2> DEFINE f == [Top EXCEPT !.pc = "scan", !.itr = ItrFirst,
                              !.in = Readable, !.out = Writable]
  <2>1. Readable \in SUBSET Modules /\ Writable \in SUBSET Modules
    BY <1>1 DEF RecordTypes, Readable, Writable
  <2>2. f \in Frames /\ f.itr = ItrFirst
    BY <1>1, <1>7, <2>1 DEF Frames
  <2>3. frames' = Become(f) /\ list' = list /\ ~At("flush")
    BY <1>22 DEF SelectReturns, records, InLoop, At
  <2> HIDE DEF f
  <2> QED BY <1>7, <1>9, <2>2, <2>3
<1>23. ASSUME NEW m \in list, At("loop"), ScanNext(m), list' = list \/ list' = list \ {m}
       PROVE  Safe(frames', list')
  <2> DEFINE f == [Top EXCEPT !.itr = ItrNext(m)]
             g == FlushFrame(m)
  <2>1. f \in Frames /\ f.itr = ItrNext(m) /\ f.kind = "loop"
    BY <1>1, <1>6, <1>23 DEF Frames, At
  <2>2. g \in Frames /\ g.kind = "flush" /\ g.mod = m /\ ~Loops(g)
    BY <1>4, <1>5, <1>23
  <2>3. f.itr \in list' \cup {0} /\ f.itr # m
    <3>1. ItrNext(m) \in list \cup {0} /\ ItrNext(m) # m
      BY <1>6, <1>23
    <3> QED BY <1>23, <2>1, <3>1
  <2>4. frames' = Become(f) \/ frames' = Append(Become(f), g)
    BY <1>23 DEF ScanNext
  <2>5. ~At("flush")
    BY <1>23 DEF At
  <2> HIDE DEF f, g
  <2>6. f.kind # "flush" /\ g.mod # f.itr
    BY <2>1, <2>2, <2>3
  <2> QED BY <1>9, <2>1, <2>2, <2>3, <2>4, <2>5, <2>6 DEF MayCall
<1>24. CASE ScanReads
  <2>1. PICK m \in Top.in : Scanning(m) /\ TakeInput(m) /\ ScanNext(m)
    BY <1>24, Zenon DEF ScanReads
  <2>2. m \in list /\ At("loop")
    BY <2>1 DEF Scanning, InLoop
  <2>3. list' = list \/ list' = list \ {m}
    BY <2>1 DEF TakeInput, Kill
  <2> QED BY <1>23, <2>1, <2>2, <2>3
<1>25. CASE ScanEof \/ ScanWrites
  <2>1. PICK m \in Modules : Scanning(m) /\ ScanNext(m) /\ (list' = list \/ list' = list \ {m})
    <3>1. CASE ScanEof
      <4>1. PICK m \in Top.in : Scanning(m) /\ Kill({m}) /\ ScanNext(m)
        BY <3>1, Zenon DEF ScanEof
      <4>2. m \in Modules
        BY <1>1, <4>1 DEF Scanning, RecordTypes
      <4>3. list' = list \ {m}
        BY <4>1 DEF Kill
      <4> QED BY <4>1, <4>2, <4>3
    <3>2. CASE ScanWrites
      <4>1. PICK m \in list : Scanning(m) /\ ScanNext(m)
        BY <3>2, Zenon DEF ScanWrites
      <4>2. list' = list
        BY <3>2 DEF ScanWrites, records
      <4> QED BY <1>1, <4>1, <4>2 DEF RecordTypes
    <3> QED BY <1>25, <3>1, <3>2
  <2>2. m \in list /\ At("loop")
    BY <2>1 DEF Scanning, InLoop
  <2> QED BY <1>23, <2>1, <2>2
<1>26. CASE ScanEnds
  <2> DEFINE f == [Top EXCEPT !.pc = "queue"]
  <2>1. f \in Frames /\ f.pc = "queue" /\ f.kind = "loop"
    BY <1>1, <1>26 DEF Frames, ScanEnds, InLoop, At
  <2>2. frames' = Become(f) /\ list' = list /\ ~At("flush")
    BY <1>26 DEF ScanEnds, records, InLoop, At
  <2> HIDE DEF f
  <2>3. ~Loops(f)
    BY <2>1 DEF Loops
  <2> QED BY <1>9, <2>1, <2>2, <2>3
<1>27. CASE Cleanup
  <2>1. frames' = Become(LoopFrame) /\ list' = list /\ ~At("flush")
    BY <1>27 DEF Cleanup, InLoop, At
  <2> QED BY <1>5, <1>9, <2>1
<1>28. CASE QueueExecutes
  <2>1. /\ cqueue # <<>> /\ list' = list /\ ~At("flush") /\ ~Loops(Top)
        /\ frames' = Append(frames, CmdFrame(Head(cqueue).mod, Head(cqueue).cmd))
    BY <1>28 DEF QueueExecutes, records, InLoop, At, Loops, Call
  <2>2. Head(cqueue) \in Entry
    BY <1>1, <2>1, TailFacts DEF OtherTypes
  <2>3. Head(cqueue).mod \in 0 .. MaxModules /\ Head(cqueue).cmd \in Seq(Ops)
    BY <2>2 DEF Entry
  <2> QED BY <1>5, <1>11, <2>1, <2>3
<1>29. CASE Wait
  BY <1>3, <1>29 DEF Wait, SyncReceive, SyncEof, SyncTimeout
<1>30. ASSUME NEW m \in Modules, Process(m) PROVE Safe(frames', list')
  <2>1. frames' = frames /\ list' = list
    BY <1>30, Zenon DEF Process, ProcReads, ProcSends, ProcExits, records
  <2> QED BY <2>1
<1> QED BY <1>14, <1>15, <1>16, <1>17, <1>18, <1>19, <1>20, <1>21, <1>22, <1>24, <1>25, <1>26,
           <1>27, <1>28, <1>29, <1>30
        DEF Next, Fvwm, Write, Command, Round, Accepting

(* If no module locks fvwm on send, the loops over the modules are as safe as
   module_list.h says: whatever is killed meanwhile, no iterator holds a link that
   was removed.  (A module that locks breaks it, as the run modules_iterator
   shows: it is PositiveWrite that executes commands in the middle of a loop.) *)
THEOREM IteratorSafeHolds == ASSUME NoLocks PROVE Spec => []IteratorSafe
<1> DEFINE SInv == IInv /\ NoSync(frames) /\ Safe(frames, list)
<1>1. Init => SInv
  <2> SUFFICES ASSUME Init PROVE SInv
    OBVIOUS
  <2>1. frames = <<LoopFrame>> /\ LoopFrame.kind = "loop" /\ LoopFrame.pc = "select"
    BY DEF Init, LoopFrame, Frame
  <2> HIDE DEF LoopFrame
  <2>2. \A d \in DOMAIN frames : frames[d] = LoopFrame
    BY <2>1
  <2>3. NoSync(frames) /\ Safe(frames, list)
    BY <2>1, <2>2 DEF NoSync, Safe, Loops
  <2> QED BY <2>3, InitInv
<1>2. SInv /\ [Next]_vars => SInv'
  <2> SUFFICES ASSUME SInv, [Next]_vars PROVE SInv'
    OBVIOUS
  <2>1. IInv'
    BY NextInv
  <2>2. CASE Next
    BY <2>1, <2>2, NoSyncStep, IteratorStep
  <2>3. CASE UNCHANGED vars
    BY <2>1, <2>3 DEF vars, records
  <2> QED BY <2>2, <2>3
<1>3. SInv => IteratorSafe
  BY DEF IteratorSafe, Safe, Loops
<1> QED BY <1>1, <1>2, <1>3, PTL DEF Spec
=============================================================================
