------------------------------ MODULE StreamProofs ------------------------------
(***************************************************************************)
(* What Stream promises for any figures and bullets and any bounds.        *)
(*                                                                         *)
(* The types are not inductive by themselves: that only born things are    *)
(* drawn needs the same of every packet under way (Known), and that a      *)
(* number is at least one needs that whoever pushes has counted (Counted). *)
(* Noticed needs Ascending: while no two threads have numbered at once,    *)
(* the numbers on the stream grow, and leave room for what was lost.       *)
(* Shown needs Faithful: a client in its lobby finds GAME_START first      *)
(* (Starting), a figure's destruction is never ahead of its creation       *)
(* (InOrder), and what the game has and the screen has not is still to be  *)
(* created, what it has no longer still to be destroyed (Arrives, Lasts).  *)
(***************************************************************************)
EXTENDS Stream, SequenceTheorems, TLAPS

\* What is under way speaks of things there are or were.
About(p) == p.word \in {"CREATE", "DESTROY"} => p.thing \in born

Known ==
    /\ \A t \in Threads : About(making[t])
    /\ \A i \in 1 .. Len(stream) : About(stream[i].packet)
    /\ About(slot)

Counted ==
    \A t \in Threads :
        /\ tpc[t] # "idle" => making[t] \in Packets
        /\ tpc[t] = "push" => sequence_number >= 1

StreamInv == StreamTypeOK /\ Known /\ Counted

\* Who numbers, does so alone and has the latest number.
Alone ==
    \A t \in Threads :
        /\ tpc[t] = "store" => reg[t] = sequence_number
        /\ tpc[t] = "push" => reg[t] + 1 = sequence_number
        /\ tpc[t] # "idle" => \A u \in Threads \ {t} : tpc[u] = "idle"

\* The last number that was put on the stream, or might have been.
Pushed == IF \E t \in Threads : tpc[t] = "push" THEN sequence_number - 1
                                                ELSE sequence_number

Ascending ==
    /\ last_packetnb + missing <= Pushed
    /\ \A i \in 1 .. Len(stream) :
           last_packetnb + missing < stream[i].nr /\ stream[i].nr <= Pushed
    /\ \A i, j \in 1 .. Len(stream) : i < j => stream[i].nr < stream[j].nr

NoticedInv == ~raced => Alone /\ Ascending

--------------------------------------------------------------------------------
(* Packets and streams. *)

LEMMA PacketFacts ==
    /\ \A w \in {"GAME_START", "HEARTBEAT", "OTHER", "ELSEWHERE"} :
           Say(w) \in Packets /\ About(Say(w))
    /\ \A x \in Things : Create(x) \in Packets /\ Destroy(x) \in Packets
    /\ \A x \in born : About(Create(x)) /\ About(Destroy(x))
    /\ About(Nothing)
  BY DEF Packets, Say, Create, Destroy, Nothing, About

LEMMA TailOf ==
    ASSUME NEW S, NEW s \in Seq(S), s # <<>>
    PROVE  /\ Tail(s) \in Seq(S) /\ Head(s) = s[1] /\ s[1] \in S /\ 1 \in 1 .. Len(s)
           /\ Len(Tail(s)) = Len(s) - 1
           /\ \A i \in 1 .. Len(Tail(s)) : i + 1 \in 1 .. Len(s) /\ Tail(s)[i] = s[i + 1]
<1>1. Len(s) \in Nat /\ Len(s) # 0
  BY EmptySeq
<1>2. 1 \in 1 .. Len(s)
  BY <1>1
<1> QED
  BY <1>1, <1>2, HeadTailProperties

LEMMA AppendOf ==
    ASSUME NEW S, NEW s \in Seq(S), NEW x \in S
    PROVE  /\ Append(s, x) \in Seq(S)
           /\ Len(Append(s, x)) = Len(s) + 1 /\ Len(s) \in Nat
           /\ \A i \in 1 .. Len(Append(s, x)) :
                  \/ i \in 1 .. Len(s) /\ Append(s, x)[i] = s[i]
                  \/ i = Len(s) + 1 /\ Append(s, x)[i] = x
<1>1. /\ Append(s, x) \in Seq(S)
      /\ Len(Append(s, x)) = Len(s) + 1 /\ Len(s) \in Nat
      /\ \A i \in 1 .. Len(s) : Append(s, x)[i] = s[i]
      /\ Append(s, x)[Len(s) + 1] = x
  BY AppendProperties
<1> QED
  BY <1>1

--------------------------------------------------------------------------------
(* The types, action by action. *)

\* Turning to a packet about things that are born once the step is done.
LEMMA MakesTypes ==
    ASSUME StreamInv, NEW t \in Threads, NEW p \in Packets, Makes(t, p), About(p)',
           UNCHANGED <<stream, lagVars, sceneVars, incomplete, cleared>>,
           game_running' \in BOOLEAN, ever' \in BOOLEAN, running' \in BOOLEAN,
           things' \subseteq born', born \subseteq born', born' \subseteq Things
    PROVE  StreamInv'
<1> USE DEF StreamInv
<1>1. /\ sequence_number' \in Nat /\ made' \in Nat /\ raced' \in BOOLEAN
      /\ tpc' \in [Threads -> {"idle", "store", "push"}]
      /\ making' \in [Threads -> Packets \cup {Nothing}]
      /\ reg' \in [Threads -> Nat]
  BY DEF Makes, StreamTypeOK
<1>2. /\ stream' = stream /\ slot' = slot /\ mutex' = mutex /\ unseen' = unseen
      /\ inGame' = inGame /\ drawn' = drawn /\ last_packetnb' = last_packetnb
      /\ missing' = missing /\ incomplete' = incomplete /\ cleared' = cleared
  BY DEF lagVars, sceneVars
<1>3. StreamTypeOK'
  BY <1>1, <1>2 DEF StreamTypeOK
<1>4. \A u \in Threads : About(making[u])'
  BY DEF Makes, StreamTypeOK, Known, About
<1>5. Known'
  BY <1>2, <1>4 DEF Known, About
<1>6. Counted'
  BY DEF Makes, StreamTypeOK, Counted
<1> QED
  BY <1>3, <1>5, <1>6

LEMMA TellsTypes ==
    ASSUME StreamInv,
           \/ handleGameStart \/ Answer \/ Update
           \/ \E x \in Figures : Spawn("game", x)
           \/ \E x \in Bullets : Spawn("handler", x)
           \/ \E x \in things : Remove(x)
    PROVE  StreamInv'
<1> USE DEF StreamInv, Threads
<1>1. CASE handleGameStart
  <2>1. Makes("handler", Say("GAME_START")) /\ About(Say("GAME_START"))'
    BY <1>1, PacketFacts DEF handleGameStart, About, Say
  <2> QED
    BY <1>1, <2>1, MakesTypes, PacketFacts DEF handleGameStart, StreamTypeOK
<1>2. CASE Answer
  <2>1. PICK w \in {"HEARTBEAT", "ELSEWHERE"} : Makes("handler", Say(w))
    BY <1>2 DEF Answer
  <2>2. About(Say(w))'
    BY DEF About, Say
  <2> QED
    BY <1>2, <2>1, <2>2, MakesTypes, PacketFacts DEF Answer, gameVars, StreamTypeOK
<1>3. CASE Update
  <2>1. Makes("game", Say("OTHER")) /\ About(Say("OTHER"))'
    BY <1>3 DEF Update, About, Say
  <2> QED
    BY <1>3, <2>1, MakesTypes, PacketFacts DEF Update, gameVars, StreamTypeOK
<1>4. ASSUME NEW t \in Threads, NEW x \in Things, Spawn(t, x) PROVE StreamInv'
  <2>1. Makes(t, Create(x)) /\ About(Create(x))'
    BY <1>4 DEF Spawn, About, Create
  <2> QED
    BY <1>4, <2>1, MakesTypes, PacketFacts DEF Spawn, StreamTypeOK
<1>5. ASSUME NEW x \in things, Remove(x) PROVE StreamInv'
  <2>1. Makes("game", Destroy(x)) /\ About(Destroy(x))' /\ x \in Things
    BY <1>5 DEF Remove, About, Destroy, StreamTypeOK
  <2> QED
    BY <1>5, <2>1, MakesTypes, PacketFacts DEF Remove, StreamTypeOK
<1> QED
  BY <1>1, <1>2, <1>3, <1>4, <1>5 DEF Things

LEMMA BroadcastTypes ==
    ASSUME StreamInv, NEW t \in Threads, Broadcasts(t)
    PROVE  StreamInv'
<1> USE DEF StreamInv
<1>1. CASE Store(t)
  <2>1. StreamTypeOK'
    BY <1>1 DEF Store, StreamTypeOK, gameVars, lagVars, sceneVars
  <2>2. Known'
    BY <1>1 DEF Store, Known, About, gameVars, sceneVars
  <2>3. Counted'
    BY <1>1 DEF Store, Counted, StreamTypeOK
  <2> QED
    BY <2>1, <2>2, <2>3
<1>2. ASSUME Returns(t)
      PROVE  /\ sequence_number' \in Nat /\ made' \in Nat /\ raced' \in BOOLEAN
             /\ tpc' \in [Threads -> {"idle", "store", "push"}]
             /\ making' \in [Threads -> Packets \cup {Nothing}]
             /\ reg' \in [Threads -> Nat]
             /\ Counted'
             /\ born' = born => \A u \in Threads : About(making[u])'
  <2>1. \A u \in Threads : making'[u] = making[u] \/ making'[u] = Nothing
    BY <1>2 DEF Returns, StreamTypeOK
  <2>2. born' = born => \A u \in Threads : About(making[u])'
    BY <2>1, PacketFacts DEF Known, About
  <2>3. Counted'
    BY <1>2 DEF Returns, Counted, StreamTypeOK
  <2> QED
    BY <1>2, <2>2, <2>3 DEF Returns, StreamTypeOK
<1>3. CASE Push(t)
  <2>1. Returns(t) /\ born' = born
    BY <1>3 DEF Push
  <2>2. ASSUME NEW n \in Number(t),
               stream' = Append(stream, [packet |-> making[t], nr |-> n])
        PROVE  stream' \in Seq(Numbered) /\ \A i \in 1 .. Len(stream') : About(stream[i].packet)'
    <3>1. n \in Nat \ {0} /\ making[t] \in Packets
      BY <1>3 DEF Push, Number, Counted, StreamTypeOK
    <3>2. [packet |-> making[t], nr |-> n] \in Numbered
      BY <3>1 DEF Numbered
    <3>3. /\ stream' \in Seq(Numbered)
          /\ \A i \in 1 .. Len(stream') :
                 \/ i \in 1 .. Len(stream) /\ stream'[i] = stream[i]
                 \/ stream'[i] = [packet |-> making[t], nr |-> n]
      BY <2>2, <3>2, AppendOf DEF StreamTypeOK
    <3>4. \A i \in 1 .. Len(stream') : About(stream'[i].packet)
      BY <3>3 DEF Known
    <3> QED
      BY <2>1, <3>3, <3>4 DEF About
  <2>3. stream' \in Seq(Numbered) /\ \A i \in 1 .. Len(stream') : About(stream[i].packet)'
    <3>1. CASE stream' = stream
      BY <2>1, <3>1 DEF Known, About, StreamTypeOK
    <3> QED
      BY <1>3, <2>2, <3>1 DEF Push
  <2>4. /\ incomplete' \in BOOLEAN
        /\ UNCHANGED <<game_running, ever, things, cleared, lagVars, sceneVars>>
    BY <1>3, Zenon DEF Push, StreamTypeOK
  <2>5. running' \in BOOLEAN
    BY <1>3 DEF Push, StreamTypeOK
  <2>6. StreamTypeOK'
    BY <1>2, <2>1, <2>3, <2>4, <2>5 DEF StreamTypeOK, lagVars, sceneVars
  <2>7. Known'
    BY <1>2, <2>1, <2>3, <2>4 DEF Known, About, sceneVars
  <2> QED
    BY <1>2, <2>1, <2>6, <2>7
<1>4. CASE SendElsewhere(t)
  <2>1. Returns(t) /\ UNCHANGED <<gameVars, stream, lagVars, sceneVars, incomplete>>
    BY <1>4 DEF SendElsewhere
  <2>2. StreamTypeOK'
    BY <1>2, <2>1 DEF StreamTypeOK, gameVars, lagVars, sceneVars
  <2>3. Known'
    BY <1>2, <2>1 DEF Known, About, gameVars, sceneVars
  <2> QED
    BY <1>2, <2>1, <2>2, <2>3
<1> QED
  BY <1>1, <1>3, <1>4 DEF Broadcasts

\* What comes off the stream.
LEMMA Taken ==
    ASSUME StreamInv, stream # <<>>, stream' = Tail(stream), born' = born
    PROVE  /\ stream' \in Seq(Numbered)
           /\ \A i \in 1 .. Len(stream') : About(stream[i].packet)'
           /\ Head(stream) \in Numbered /\ About(Head(stream).packet)
<1>1. stream \in Seq(Numbered)
  BY DEF StreamInv, StreamTypeOK
<1>2. /\ Tail(stream) \in Seq(Numbered)
      /\ Head(stream) = stream[1] /\ stream[1] \in Numbered /\ 1 \in 1 .. Len(stream)
      /\ \A i \in 1 .. Len(Tail(stream)) :
             i + 1 \in 1 .. Len(stream) /\ Tail(stream)[i] = stream[i + 1]
  BY <1>1, TailOf
<1> QED
  BY <1>2 DEF StreamInv, Known, About

LEMMA ClientTypes ==
    ASSUME StreamInv,
           \/ Lose \/ parseHeartBeat \/ parseMessage \/ FrameMisses \/ FrameWipes
           \/ \E click \in BOOLEAN : Frame(click)
    PROVE  StreamInv'
<1> USE DEF StreamInv
<1>0. UNCHANGED <<numberVars, gameVars>>
  BY DEF Lose, parseHeartBeat, parseMessage, Frame, FrameMisses, FrameWipes
<1>1. Counted' /\ \A t \in Threads : About(making[t])'
  BY <1>0 DEF Counted, Known, About, numberVars, gameVars
<1>2. CASE Lose
  <2>1. StreamTypeOK'
    BY <1>0, <1>2, Taken DEF Lose, StreamTypeOK, numberVars, gameVars, sceneVars
  <2>2. Known'
    BY <1>0, <1>1, <1>2, Taken DEF Lose, Known, About, gameVars, sceneVars
  <2> QED
    BY <1>1, <2>1, <2>2
<1>3. CASE parseHeartBeat
  <2>1. StreamTypeOK'
    BY <1>0, <1>3, Taken DEF parseHeartBeat, Receives, StreamTypeOK, numberVars, gameVars,
                             lagVars
  <2>2. Known'
    BY <1>0, <1>1, <1>3, Taken DEF parseHeartBeat, Receives, Known, About, gameVars
  <2> QED
    BY <1>1, <2>1, <2>2
<1>4. CASE parseMessage
  <2>1. /\ stream' \in Seq(Numbered)
        /\ \A i \in 1 .. Len(stream') : About(stream[i].packet)'
        /\ Head(stream) \in Numbered /\ About(Head(stream).packet)
    BY <1>0, <1>4, Taken DEF parseMessage, Receives, gameVars
  <2>2. slot' \in Packets /\ last_packetnb' \in Nat /\ missing' \in Nat
    BY <1>4, <2>1 DEF parseMessage, Numbered
  <2>3. /\ UNCHANGED <<inGame, drawn>> /\ mutex' \in BOOLEAN /\ unseen' \in BOOLEAN
        /\ incomplete' \in BOOLEAN
    BY <1>4, Zenon DEF parseMessage, Receives, StreamTypeOK
  <2>4. StreamTypeOK'
    BY <1>0, <2>1, <2>2, <2>3 DEF StreamTypeOK, numberVars, gameVars
  <2>5. About(slot)'
    BY <1>0, <1>4, <2>1 DEF parseMessage, About, gameVars
  <2> QED
    BY <1>1, <2>1, <2>4, <2>5 DEF Known
<1>5. CASE FrameMisses
  <2>1. StreamTypeOK'
    BY <1>0, <1>5 DEF FrameMisses, StreamTypeOK, numberVars, gameVars, lagVars
  <2>2. Known'
    BY <1>0, <1>1, <1>5 DEF FrameMisses, Known, About, gameVars
  <2> QED
    BY <1>1, <2>1, <2>2
<1>6. CASE FrameWipes
  <2>1. StreamTypeOK'
    BY <1>0, <1>6 DEF FrameWipes, StreamTypeOK, numberVars, gameVars, lagVars
  <2>2. Known'
    BY <1>0, <1>1, <1>6 DEF FrameWipes, Known, About, gameVars, Nothing, Say
  <2> QED
    BY <1>1, <2>1, <2>2
<1>7. ASSUME NEW click \in BOOLEAN, Frame(click) PROVE StreamInv'
  <2>1. UNCHANGED <<stream, lagVars, incomplete>> /\ mutex' \in BOOLEAN /\ unseen' \in BOOLEAN
    BY <1>7 DEF Frame
  <2>2. inGame' \in BOOLEAN
    BY <1>7, Zenon DEF Frame, StreamTypeOK
  <2>3. slot' \in {slot, Nothing} /\ drawn' \in {drawn, Sprites(slot)}
    BY <1>7 DEF Frame
  <2>4. Sprites(slot) \subseteq born
    BY DEF Sprites, StreamTypeOK, Known, About
  <2>5. StreamTypeOK'
    BY <1>0, <2>1, <2>2, <2>3, <2>4 DEF StreamTypeOK, numberVars, gameVars, lagVars
  <2>6. Known'
    BY <1>0, <1>1, <2>1, <2>3 DEF Known, About, gameVars, Nothing, Say
  <2> QED
    BY <1>1, <2>5, <2>6
<1> QED
  BY <1>2, <1>3, <1>4, <1>5, <1>6, <1>7

LEMMA StreamInvStep == StreamInv /\ [StreamNext]_streamVars => StreamInv'
<1> SUFFICES ASSUME StreamInv, [StreamNext]_streamVars PROVE StreamInv'
  OBVIOUS
<1> USE DEF StreamInv
<1>1. CASE handleGameEnd
  <2>1. StreamTypeOK'
    BY <1>1 DEF handleGameEnd, StreamTypeOK, numberVars, lagVars, sceneVars
  <2>2. Known' /\ Counted'
    BY <1>1 DEF handleGameEnd, Known, Counted, About, numberVars, sceneVars
  <2> QED
    BY <2>1, <2>2
<1>2. CASE UNCHANGED streamVars
  <2>1. StreamTypeOK'
    BY <1>2 DEF StreamTypeOK, streamVars, numberVars, gameVars, lagVars, sceneVars
  <2>2. Known' /\ Counted'
    BY <1>2 DEF Known, Counted, About, streamVars, numberVars, gameVars, sceneVars
  <2> QED
    BY <2>1, <2>2
<1> QED
  BY <1>1, <1>2, TellsTypes, BroadcastTypes, ClientTypes DEF StreamNext

LEMMA StreamInitInv == StreamInit => StreamInv
<1> SUFFICES ASSUME StreamInit PROVE StreamInv
  OBVIOUS
<1>1. StreamTypeOK
  <2>1. stream \in Seq(Numbered) /\ slot = Nothing
    BY DEF StreamInit
  <2>2. /\ making \in [Threads -> Packets \cup {Nothing}]
        /\ tpc \in [Threads -> {"idle", "store", "push"}]
        /\ reg \in [Threads -> Nat]
    BY DEF StreamInit
  <2>3. /\ game_running \in BOOLEAN /\ ever \in BOOLEAN /\ running \in BOOLEAN
        /\ mutex \in BOOLEAN /\ unseen \in BOOLEAN /\ inGame \in BOOLEAN
        /\ raced \in BOOLEAN /\ incomplete \in BOOLEAN
    BY DEF StreamInit
  <2> QED
    BY <2>1, <2>2, <2>3 DEF StreamInit, StreamTypeOK
<1>2. Known /\ Counted
  BY PacketFacts DEF StreamInit, Known, Counted
<1> QED
  BY <1>1, <1>2 DEF StreamInv

(***************************************************************************)
(* The types of the variables; among them, that a client draws only what   *)
(* the game had.                                                           *)
(***************************************************************************)
THEOREM StreamTypes == StreamSpec => []StreamTypeOK
<1>1. StreamInv => StreamTypeOK
  BY DEF StreamInv
<1> QED
  BY <1>1, StreamInitInv, StreamInvStep, PTL DEF StreamSpec
--------------------------------------------------------------------------------
(* The numbers. *)

LEMMA MakesNumbers ==
    ASSUME StreamInv, NoticedInv, NEW t \in Threads, NEW p, Makes(t, p),
           UNCHANGED <<stream, lagVars>>
    PROVE  NoticedInv'
<1> USE DEF StreamInv, StreamTypeOK
<1> SUFFICES ASSUME ~raced' PROVE Alone' /\ Ascending'
  BY DEF NoticedInv
<1>1. ~raced /\ \A u \in Threads : tpc[u] = "idle"
  BY DEF Makes, Numbering
<1>2. /\ sequence_number' = sequence_number /\ reg'[t] = sequence_number
      /\ tpc'[t] = "store" /\ \A u \in Threads \ {t} : tpc'[u] = "idle"
  BY <1>1 DEF Makes
<1>3. Alone'
  BY <1>2 DEF Alone
<1>4. Pushed' = Pushed
  BY <1>1, <1>2 DEF Pushed
<1>5. Ascending
  BY <1>1 DEF NoticedInv
<1> QED
  BY <1>3, <1>4, <1>5 DEF Ascending, lagVars

LEMMA StoreNumbers ==
    ASSUME StreamInv, NoticedInv, NEW t \in Threads, Store(t)
    PROVE  NoticedInv'
<1> USE DEF StreamInv, StreamTypeOK
<1> SUFFICES ASSUME ~raced' PROVE Alone' /\ Ascending'
  BY DEF NoticedInv
<1>1. Alone /\ Ascending
  BY DEF NoticedInv, Store
<1>2. /\ tpc[t] = "store" /\ reg[t] = sequence_number
      /\ \A u \in Threads \ {t} : tpc[u] = "idle"
  BY <1>1 DEF Store, Alone
<1>3. /\ tpc'[t] = "push" /\ \A u \in Threads \ {t} : tpc'[u] = "idle"
      /\ sequence_number' = sequence_number + 1 /\ reg' = reg
  BY <1>2 DEF Store
<1>4. Alone'
  BY <1>2, <1>3 DEF Alone
<1>5. Pushed = sequence_number /\ Pushed' = sequence_number
  BY <1>2, <1>3 DEF Pushed
<1> QED
  BY <1>1, <1>4, <1>5 DEF Ascending, Store, lagVars

LEMMA ReturnsNumbers ==
    ASSUME StreamInv, Alone, NEW t \in Threads, tpc[t] = "push", Returns(t)
    PROVE  /\ Alone' /\ Pushed = sequence_number - 1 /\ Pushed' = sequence_number
           /\ reg[t] + 1 = sequence_number
<1> USE DEF StreamInv, StreamTypeOK
<1>1. \A u \in Threads : tpc'[u] = "idle"
  BY DEF Returns, Alone
<1> QED
  BY <1>1 DEF Returns, Alone, Pushed

LEMMA PushNumbers ==
    ASSUME StreamInv, NoticedInv, NEW t \in Threads, Push(t) \/ SendElsewhere(t)
    PROVE  NoticedInv'
<1> USE DEF StreamInv
<1> SUFFICES ASSUME ~raced' PROVE Alone' /\ Ascending'
  BY DEF NoticedInv
<1>1. Returns(t) /\ tpc[t] = "push" /\ UNCHANGED lagVars
  BY DEF Push, SendElsewhere
<1>2. Alone /\ Ascending
  BY <1>1 DEF NoticedInv, Returns
<1>3. /\ Alone' /\ Pushed = sequence_number - 1 /\ Pushed' = sequence_number
      /\ reg[t] + 1 = sequence_number /\ sequence_number \in Nat
  BY <1>1, <1>2, ReturnsNumbers DEF StreamTypeOK
<1>4. /\ last_packetnb' = last_packetnb /\ missing' = missing
      /\ last_packetnb \in Nat /\ missing \in Nat
  BY <1>1 DEF lagVars, StreamTypeOK
<1>5. \A i \in 1 .. Len(stream) : stream[i].nr \in Nat
  <2>1. \A i \in 1 .. Len(stream) : stream[i] \in Numbered
    BY DEF StreamTypeOK
  <2> QED
    BY <2>1 DEF Numbered
<1>6. CASE stream' = stream
  BY <1>2, <1>3, <1>4, <1>5, <1>6 DEF Ascending
<1>7. ASSUME NEW n \in Number(t),
             stream' = Append(stream, [packet |-> making[t], nr |-> n])
      PROVE  Ascending'
  <2>1. n = sequence_number
    BY <1>3 DEF Number
  <2>2. [packet |-> making[t], nr |-> n] \in Numbered
    BY <1>1, <1>3, <2>1 DEF Counted, Numbered, StreamTypeOK
  <2>3. /\ Len(stream') = Len(stream) + 1 /\ Len(stream) \in Nat
        /\ \A i \in 1 .. Len(stream') :
               \/ i \in 1 .. Len(stream) /\ stream'[i] = stream[i]
               \/ i = Len(stream) + 1 /\ stream'[i] = [packet |-> making[t], nr |-> n]
    BY <1>7, <2>2, AppendOf DEF StreamTypeOK
  <2>4. \A i \in 1 .. Len(stream') :
            \/ i \in 1 .. Len(stream) /\ stream'[i].nr = stream[i].nr
            \/ i = Len(stream) + 1 /\ stream'[i].nr = sequence_number
    BY <2>1, <2>3
  <2>5. last_packetnb' + missing' <= Pushed'
    BY <1>2, <1>3, <1>4 DEF Ascending
  <2>6. \A i \in 1 .. Len(stream') :
            last_packetnb' + missing' < stream'[i].nr /\ stream'[i].nr <= Pushed'
    BY <1>2, <1>3, <1>4, <1>5, <2>4 DEF Ascending
  <2>7. \A i, j \in 1 .. Len(stream') : i < j => stream'[i].nr < stream'[j].nr
    BY <1>2, <1>3, <1>5, <2>3, <2>4 DEF Ascending
  <2> QED
    BY <2>5, <2>6, <2>7 DEF Ascending
<1> QED
  BY <1>3, <1>6, <1>7 DEF Push, SendElsewhere

\* What is lost, or taken: the numbers behind it leave room for it.
LEMMA TakenNumbers ==
    ASSUME StreamInv, Alone, Ascending, UNCHANGED numberVars,
           stream # <<>>, stream' = Tail(stream),
           \/ missing' = missing + 1 /\ last_packetnb' = last_packetnb
           \/ UNCHANGED lagVars
           \/ missing' = 0 /\ last_packetnb' = Head(stream).nr
    PROVE  Alone' /\ Ascending'
<1>1. stream \in Seq(Numbered) /\ missing \in Nat /\ last_packetnb \in Nat
  BY DEF StreamInv, StreamTypeOK
<1>2. /\ Head(stream) = stream[1] /\ 1 \in 1 .. Len(stream) /\ Len(stream) \in Nat
      /\ Len(stream') = Len(stream) - 1
      /\ \A i \in 1 .. Len(stream') :
             i + 1 \in 1 .. Len(stream) /\ stream'[i] = stream[i + 1]
  BY <1>1, TailOf
<1>3. \A i \in 1 .. Len(stream) : stream[i].nr \in Nat
  <2>1. \A i \in 1 .. Len(stream) : stream[i] \in Numbered
    BY <1>1
  <2> QED
    BY <2>1 DEF Numbered
<1>4. Alone'
  BY DEF Alone, numberVars
<1>5. Pushed' = Pushed /\ Pushed \in Int
  BY DEF Pushed, numberVars, StreamInv, StreamTypeOK
<1>6. /\ last_packetnb' + missing' <= stream[1].nr
      /\ last_packetnb' \in Nat /\ missing' \in Nat
  BY <1>1, <1>2, <1>3 DEF Ascending, lagVars
<1>7. \A i \in 1 .. Len(stream') :
          stream[1].nr < stream'[i].nr /\ stream'[i].nr <= Pushed
  <2>1. \A i \in 1 .. Len(stream') : 1 < i + 1
    OBVIOUS
  <2> QED
    BY <1>2, <2>1 DEF Ascending
<1>8. \A i, j \in 1 .. Len(stream') : i < j => stream'[i].nr < stream'[j].nr
  <2>1. \A i, j \in 1 .. Len(stream') : i < j => i + 1 < j + 1
    OBVIOUS
  <2> QED
    BY <1>2, <2>1 DEF Ascending
<1>9. stream[1].nr <= Pushed /\ stream[1].nr \in Nat
  BY <1>2, <1>3 DEF Ascending
<1>10. \A i \in 1 .. Len(stream') : stream'[i].nr \in Nat
  BY <1>2, <1>3
<1>11. last_packetnb' + missing' <= Pushed'
  <2>1. \A a, b, c \in Int : a <= b /\ b <= c => a <= c
    OBVIOUS
  <2>2. last_packetnb' + missing' \in Int /\ stream[1].nr \in Int
    BY <1>6, <1>9
  <2>3. last_packetnb' + missing' <= Pushed
    BY <1>5, <1>6, <1>9, <2>1, <2>2
  <2> QED
    BY <1>5, <2>3, Zenon
<1>12. \A i \in 1 .. Len(stream') :
           last_packetnb' + missing' < stream'[i].nr /\ stream'[i].nr <= Pushed'
  BY <1>5, <1>6, <1>7, <1>9, <1>10
<1> QED
  BY <1>4, <1>8, <1>11, <1>12 DEF Ascending

LEMMA NoticedInvStep ==
    ASSUME StreamInv, NoticedInv, [StreamNext]_streamVars
    PROVE  /\ NoticedInv'
           /\ last_packetnb' # last_packetnb /\ ~raced => WarnedOf >= missing
<1>1. CASE \/ handleGameStart \/ Answer \/ Update
           \/ \E x \in Figures : Spawn("game", x)
           \/ \E x \in Bullets : Spawn("handler", x)
           \/ \E x \in things : Remove(x)
  <2>0. PICK t \in Threads : \E p : Makes(t, p)
    BY <1>1 DEF handleGameStart, Answer, Update, Spawn, Remove, Threads
  <2>1. PICK p : Makes(t, p)
    BY <2>0
  <2>2. UNCHANGED <<stream, lagVars>>
    BY <1>1 DEF handleGameStart, Answer, Update, Spawn, Remove
  <2> QED
    BY <2>1, <2>2, MakesNumbers DEF lagVars
<1>2. ASSUME NEW t \in Threads, Broadcasts(t)
      PROVE  NoticedInv' /\ last_packetnb' = last_packetnb
  <2>1. last_packetnb' = last_packetnb
    BY <1>2 DEF Broadcasts, Store, Push, SendElsewhere, lagVars
  <2> QED
    BY <1>2, <2>1, StoreNumbers, PushNumbers DEF Broadcasts
<1>3. CASE Lose \/ parseHeartBeat
  <2>1. /\ UNCHANGED numberVars /\ stream # <<>> /\ stream' = Tail(stream)
        /\ last_packetnb' = last_packetnb
        /\ missing' = missing + 1 \/ UNCHANGED lagVars
    BY <1>3 DEF Lose, parseHeartBeat, Receives, lagVars
  <2> QED
    BY <2>1, TakenNumbers DEF NoticedInv, numberVars
<1>4. CASE parseMessage
  <2>1. /\ UNCHANGED numberVars /\ stream # <<>> /\ stream' = Tail(stream)
        /\ missing' = 0 /\ last_packetnb' = Head(stream).nr
    BY <1>4 DEF parseMessage, Receives
  <2>2. NoticedInv'
    BY <2>1, TakenNumbers DEF NoticedInv, numberVars
  <2>3. ~raced => WarnedOf >= missing
    <3>1. stream \in Seq(Numbered) /\ missing \in Nat /\ last_packetnb \in Nat
      BY DEF StreamInv, StreamTypeOK
    <3>2. Head(stream) = stream[1] /\ stream[1] \in Numbered /\ 1 \in 1 .. Len(stream)
      BY <2>1, <3>1, TailOf
    <3>3. stream[1].nr \in Nat
      BY <3>2 DEF Numbered
    <3>4. ~raced => last_packetnb + missing < stream[1].nr
      BY <3>2 DEF NoticedInv, Ascending
    <3> QED
      BY <2>1, <3>1, <3>2, <3>3, <3>4 DEF WarnedOf
  <2> QED
    BY <2>2, <2>3
<1>5. CASE \/ handleGameEnd \/ FrameMisses \/ FrameWipes \/ UNCHANGED streamVars
           \/ \E click \in BOOLEAN : Frame(click)
  <2>1. UNCHANGED <<numberVars, stream, lagVars>>
    BY <1>5 DEF handleGameEnd, FrameMisses, FrameWipes, Frame, streamVars
  <2> QED
    BY <2>1 DEF NoticedInv, Alone, Ascending, Pushed, numberVars, lagVars
<1> QED
  BY <1>1, <1>2, <1>3, <1>4, <1>5 DEF StreamNext

(***************************************************************************)
(* Losses show in the numbers as long as no two threads have drawn one at  *)
(* once, however many packets are lost, in whatever places, and whoever    *)
(* else is answered in between (Server.cpp:83-84, Client.cpp:186-201).     *)
(***************************************************************************)
THEOREM StreamNoticed == StreamSpec => Noticed
<1>1. StreamInit => NoticedInv
  BY DEF StreamInit, NoticedInv, Alone, Ascending, Pushed
<1>2. StreamInv /\ NoticedInv /\ [StreamNext]_streamVars
          => /\ NoticedInv'
             /\ [last_packetnb' # last_packetnb /\ ~raced => WarnedOf >= missing]_streamVars
  BY NoticedInvStep
<1> QED
  BY <1>1, <1>2, StreamInitInv, StreamInvStep, PTL DEF StreamSpec, Noticed
--------------------------------------------------------------------------------
(* What is drawn. *)

\* A packet is being made, queued, sent, or in the slot.
UnderWay(p) ==
    \/ \E t \in Threads : making[t] = p
    \/ \E i \in 1 .. Len(stream) : stream[i].packet = p
    \/ slot = p

Idle ==
    /\ \A t \in Threads : tpc[t] = "idle" => making[t] = Nothing
    /\ ~unseen => slot = Nothing

\* Before the game's thread runs there is nothing to tell of it.
Before ==
    ~running =>
        /\ born = {} /\ slot = Nothing /\ making["game"] = Nothing
        /\ making["handler"].word \in {"NONE", "HEARTBEAT", "ELSEWHERE", "GAME_START"}
        /\ \A i \in 1 .. Len(stream) : stream[i].packet.word = "HEARTBEAT"

\* A client in its lobby finds GAME_START before anything else.
Starting ==
    running /\ ~inGame =>
        \/ slot = Say("GAME_START")
        \/ /\ slot = Nothing
           /\ \E i \in 1 .. Len(stream) :
                  /\ stream[i].packet = Say("GAME_START")
                  /\ \A j \in 1 .. Len(stream) :
                         j < i => stream[j].packet.word = "HEARTBEAT"

\* Figures are the game thread's affair.
HandlerTells(p) ==
    /\ p.word # "DESTROY"
    /\ p.word = "CREATE" => p.thing \in Bullets

Created == \A x \in Things : making["game"] = Create(x) => x \in things \cup cleared

Gone ==
    /\ things \cap cleared = {}
    /\ \A x \in Things : UnderWay(Destroy(x)) => x \notin things \cup cleared

InOrder ==
    \A x \in Figures : \A j \in 1 .. Len(stream) :
        stream[j].packet = Create(x) =>
            /\ slot # Destroy(x)
            /\ \A i \in 1 .. Len(stream) : i < j => stream[i].packet # Destroy(x)

Arrives == \A x \in things : x \in drawn \/ UnderWay(Create(x))

Lasts ==
    \A x \in Figures :
        x \in drawn \/ UnderWay(Create(x)) => x \in things \cup cleared \/ UnderWay(Destroy(x))

Faithful ==
    /\ Idle /\ Before /\ Starting
    /\ HandlerTells(making["handler"]) /\ Created /\ Gone /\ InOrder
    /\ Arrives /\ Lasts

ShownInv == ~incomplete => Faithful

Tidings == {Create(x) : x \in Things} \cup {Destroy(x) : x \in Things}

LEMMA Words ==
    /\ \A w : Say(w).word = w
    /\ Nothing = Say("NONE") /\ Nothing.word = "NONE"
    /\ \A x : /\ Create(x).word = "CREATE" /\ Create(x).thing = x
              /\ Destroy(x).word = "DESTROY" /\ Destroy(x).thing = x
    /\ \A p \in Packets :
           /\ p.word \in {"GAME_START", "HEARTBEAT", "OTHER", "ELSEWHERE", "CREATE", "DESTROY"}
           /\ p.word = "GAME_START" => p = Say("GAME_START")
           /\ p.word = "CREATE" => p.thing \in Things /\ p = Create(p.thing)
           /\ p.word = "DESTROY" => p.thing \in Things /\ p = Destroy(p.thing)
  BY DEF Say, Nothing, Create, Destroy, Packets

LEMMA TidingsWords ==
    \A q \in Tidings : q.word \in {"CREATE", "DESTROY"} /\ q \in Packets
  BY Words, PacketFacts DEF Tidings

\* What is under way of a thing, that thing is born.
LEMMA UnderWayBorn ==
    ASSUME StreamInv, NEW x \in Things, UnderWay(Destroy(x)) \/ UnderWay(Create(x))
    PROVE  x \in born
  BY Words DEF StreamInv, Known, About, UnderWay

--------------------------------------------------------------------------------
\* A thread turns to making a packet, which goes with what happened to the game.
LEMMA MakesShown ==
    ASSUME StreamInv, Faithful, NEW t \in Threads, NEW p \in Packets, Makes(t, p),
           UNCHANGED <<stream, sceneVars, running, cleared>>,
           t = "handler" => HandlerTells(p),
           ~running => /\ t = "handler" /\ born' = {}
                       /\ p.word \in {"HEARTBEAT", "ELSEWHERE", "GAME_START"},
           \A x \in things' : x \in things \/ p = Create(x),
           \A x \in things : x \in things' \/ p = Destroy(x),
           \A x \in Things : p = Create(x) => x \in things' /\ x \notin born,
           \A x \in Things : p = Destroy(x) => x \in things \ things',
           things' \subseteq Things
    PROVE  Faithful'
<1> USE DEF Faithful
<1>1. /\ stream' = stream /\ slot' = slot /\ unseen' = unseen /\ inGame' = inGame
      /\ drawn' = drawn /\ running' = running /\ cleared' = cleared
  BY DEF sceneVars
<1>2. /\ tpc[t] = "idle" /\ making[t] = Nothing
      /\ making' = [making EXCEPT ![t] = p] /\ making'[t] = p
      /\ \A u \in Threads \ {t} : making'[u] = making[u]
      /\ tpc'[t] = "store" /\ \A u \in Threads \ {t} : tpc'[u] = tpc[u]
  BY DEF Makes, Idle, StreamInv, StreamTypeOK
<1>3. ASSUME NEW q \in Tidings PROVE UnderWay(q)' <=> UnderWay(q) \/ q = p
  <2>1. q # Nothing
    BY TidingsWords, Words
  <2>2. (\E u \in Threads : making'[u] = q) <=> (\E u \in Threads : making[u] = q) \/ q = p
    BY <1>2, <2>1
  <2> QED
    BY <1>1, <2>2 DEF UnderWay
<1>4. \A x \in Things : Create(x) \in Tidings /\ Destroy(x) \in Tidings
  BY DEF Tidings
<1>5. \A x \in Things : UnderWay(Create(x))' <=> UnderWay(Create(x)) \/ Create(x) = p
  BY <1>3, <1>4
<1>6. \A x \in Things : UnderWay(Destroy(x))' <=> UnderWay(Destroy(x)) \/ Destroy(x) = p
  BY <1>3, <1>4
<1>7. things \subseteq born /\ cleared \subseteq born
  BY DEF StreamInv, StreamTypeOK
<1>8. Idle'
  BY <1>1, <1>2 DEF Idle
<1>9. Before'
  BY <1>1, <1>2 DEF Before, Threads
<1>10. Starting'
  BY <1>1 DEF Starting
<1>11. HandlerTells(making["handler"])'
  BY <1>2 DEF HandlerTells, Threads
<1>12. Created'
  <2> SUFFICES ASSUME NEW x \in Things, making'["game"] = Create(x)
               PROVE  x \in things' \cup cleared'
    BY DEF Created
  <2>1. CASE t = "game"
    BY <1>2, <2>1
  <2>2. CASE t = "handler"
    <3>1. x \in things \cup cleared
      BY <1>2, <2>2 DEF Created, Threads
    <3>2. p # Destroy(x)
      BY <2>2, Words DEF HandlerTells
    <3> QED
      BY <1>1, <3>1, <3>2
  <2> QED
    BY <2>1, <2>2 DEF Threads
<1>13. Gone'
  <2>1. things' \cap cleared' = {}
    BY <1>1, <1>7 DEF Gone
  <2>2. ASSUME NEW x \in Things, UnderWay(Destroy(x))' PROVE x \notin things' \cup cleared'
    <3>1. CASE p = Destroy(x)
      BY <1>1, <3>1 DEF Gone
    <3>2. CASE UnderWay(Destroy(x))
      <4>1. x \in born /\ x \notin things \cup cleared
        BY <3>2, UnderWayBorn DEF Gone
      <4> QED
        BY <1>1, <4>1
    <3> QED
      BY <1>6, <2>2, <3>1, <3>2
  <2> QED
    BY <2>1, <2>2 DEF Gone
<1>14. InOrder'
  BY <1>1 DEF InOrder
<1>15. Arrives'
  <2> SUFFICES ASSUME NEW x \in things' PROVE x \in drawn' \/ UnderWay(Create(x))'
    BY DEF Arrives
  <2> QED
    BY <1>1, <1>5 DEF Arrives
<1>16. Lasts'
  <2> SUFFICES ASSUME NEW x \in Figures, x \in drawn' \/ UnderWay(Create(x))'
               PROVE  x \in things' \cup cleared' \/ UnderWay(Destroy(x))'
    BY DEF Lasts
  <2>1. x \in Things
    BY DEF Things
  <2>2. CASE p = Create(x)
    BY <2>1, <2>2
  <2>3. CASE x \in drawn \/ UnderWay(Create(x))
    <3>1. x \in things \cup cleared \/ UnderWay(Destroy(x))
      BY <2>3 DEF Lasts
    <3> QED
      BY <1>1, <1>6, <2>1, <3>1
  <2> QED
    BY <1>1, <1>5, <2>1, <2>2, <2>3
<1> QED
  BY <1>8, <1>9, <1>10, <1>11, <1>12, <1>13, <1>14, <1>15, <1>16

LEMMA TellsShown ==
    ASSUME StreamInv, Faithful,
           \/ handleGameStart \/ Answer \/ Update
           \/ \E x \in Figures : Spawn("game", x)
           \/ \E x \in Bullets : Spawn("handler", x)
           \/ \E x \in things : Remove(x)
    PROVE  Faithful'
<1> USE DEF Threads
<1>0. things \subseteq born /\ born \subseteq Things
  BY DEF StreamInv, StreamTypeOK
<1>a. ~running => born = {}
  BY DEF Faithful, Before
<1>1. CASE handleGameStart
  <2>1. /\ Makes("handler", Say("GAME_START")) /\ Say("GAME_START") \in Packets
        /\ HandlerTells(Say("GAME_START"))
    BY <1>1, PacketFacts, Words DEF handleGameStart, HandlerTells
  <2>2. \A x : Say("GAME_START") # Create(x) /\ Say("GAME_START") # Destroy(x)
    BY Words
  <2>3. /\ UNCHANGED <<stream, sceneVars, running, cleared>>
        /\ things' = things /\ born' = born
    BY <1>1 DEF handleGameStart
  <2> QED
    BY <1>0, <1>a, <2>1, <2>2, <2>3, Words, MakesShown
<1>2. CASE Answer
  <2>1. PICK w \in {"HEARTBEAT", "ELSEWHERE"} : Makes("handler", Say(w))
    BY <1>2 DEF Answer
  <2>2. /\ Say(w) \in Packets /\ HandlerTells(Say(w))
        /\ \A x : Say(w) # Create(x) /\ Say(w) # Destroy(x)
    BY PacketFacts, Words DEF HandlerTells
  <2>3. /\ UNCHANGED <<stream, sceneVars, running, cleared>>
        /\ things' = things /\ born' = born
    BY <1>2 DEF Answer, gameVars
  <2> QED
    BY <1>0, <1>a, <2>1, <2>2, <2>3, Words, MakesShown
<1>3. CASE Update
  <2>1. /\ Makes("game", Say("OTHER")) /\ Say("OTHER") \in Packets /\ running
        /\ \A x : Say("OTHER") # Create(x) /\ Say("OTHER") # Destroy(x)
    BY <1>3, PacketFacts, Words DEF Update
  <2>2. /\ UNCHANGED <<stream, sceneVars, running, cleared>> /\ things' = things
    BY <1>3 DEF Update, gameVars
  <2> QED
    BY <1>0, <2>1, <2>2, MakesShown
<1>4. ASSUME NEW t \in Threads, NEW x \in Things, Spawn(t, x), t = "handler" => x \in Bullets
      PROVE  Faithful'
  <2>1. /\ Makes(t, Create(x)) /\ Create(x) \in Packets /\ running /\ x \notin born
        /\ t = "handler" => HandlerTells(Create(x))
    BY <1>4, PacketFacts, Words DEF Spawn, HandlerTells
  <2>2. UNCHANGED <<stream, sceneVars, running, cleared>> /\ things' = things \cup {x}
    BY <1>4 DEF Spawn
  <2>3. \A y : (Create(x) = Create(y) => x = y) /\ Create(x) # Destroy(y)
    BY Words
  <2> QED
    BY <1>0, <2>1, <2>2, <2>3, MakesShown
<1>5. ASSUME NEW x \in things, Remove(x) PROVE Faithful'
  <2>1. Makes("game", Destroy(x)) /\ Destroy(x) \in Packets /\ running
    BY <1>0, <1>5, PacketFacts DEF Remove
  <2>2. UNCHANGED <<stream, sceneVars, running, cleared>> /\ things' = things \ {x}
    BY <1>5 DEF Remove
  <2>3. \A y : (Destroy(x) = Destroy(y) => x = y) /\ Destroy(x) # Create(y)
    BY Words
  <2> QED
    BY <1>0, <2>1, <2>2, <2>3, MakesShown
<1>6. \A x \in Figures : x \in Things
  BY DEF Things
<1>7. \A x \in Bullets : x \in Things
  BY DEF Things
<1> QED
  BY <1>1, <1>2, <1>3, <1>4, <1>5, <1>6, <1>7

\* Steps that leave all packets where they are, or move them along.
LEMMA SameWay ==
    ASSUME StreamInv, Faithful,
           UNCHANGED <<born, things, cleared, drawn>>,
           Idle', Before', Starting', HandlerTells(making["handler"])', Created', InOrder',
           \A q \in Tidings : UnderWay(q)' <=> UnderWay(q)
    PROVE  Faithful'
<1> USE DEF Faithful
<1>1. \A x \in Things : Create(x) \in Tidings /\ Destroy(x) \in Tidings
  BY DEF Tidings
<1>2. things \subseteq Things /\ Figures \subseteq Things
  BY DEF StreamInv, StreamTypeOK, Things
<1>3. Gone'
  BY <1>1 DEF Gone
<1>4. Arrives'
  <2> SUFFICES ASSUME NEW x \in things PROVE x \in drawn' \/ UnderWay(Create(x))'
    BY DEF Arrives
  <2>1. x \in drawn \/ UnderWay(Create(x))
    BY DEF Arrives
  <2> QED
    BY <1>1, <1>2, <2>1
<1>5. Lasts'
  <2> SUFFICES ASSUME NEW x \in Figures, x \in drawn' \/ UnderWay(Create(x))'
               PROVE  x \in things' \cup cleared' \/ UnderWay(Destroy(x))'
    BY DEF Lasts
  <2>1. x \in things \cup cleared \/ UnderWay(Destroy(x))
    BY <1>1, <1>2 DEF Lasts
  <2> QED
    BY <1>1, <1>2, <2>1
<1> QED
  BY <1>3, <1>4, <1>5

LEMMA BroadcastShown ==
    ASSUME StreamInv, Faithful, NEW t \in Threads, Broadcasts(t), ~incomplete, ~incomplete'
    PROVE  Faithful'
<1> USE DEF Faithful
<1>1. CASE Store(t)
  <2>1. UNCHANGED <<making, stream, slot, unseen, inGame, drawn, gameVars>>
    BY <1>1 DEF Store, sceneVars
  <2>2. Idle'
    BY <1>1, <2>1 DEF Store, Idle, StreamInv, StreamTypeOK
  <2>3. /\ Before' /\ Starting' /\ HandlerTells(making["handler"])' /\ Created' /\ InOrder'
        /\ \A q \in Tidings : UnderWay(q)' <=> UnderWay(q)
    BY <2>1 DEF Before, Starting, HandlerTells, Created, InOrder, UnderWay, gameVars
  <2> QED
    BY <2>1, <2>2, <2>3, SameWay DEF gameVars
<1>2. ASSUME Returns(t), tpc[t] = "push"
      PROVE  /\ making'[t] = Nothing /\ \A u \in Threads \ {t} : making'[u] = making[u]
             /\ \A u \in Threads : tpc'[u] = "idle" => making'[u] = Nothing
             /\ making[t] \in Packets
  BY <1>2 DEF Returns, Idle, StreamInv, StreamTypeOK, Counted
<1>3. CASE SendElsewhere(t)
  <2>1. /\ UNCHANGED <<stream, slot, unseen, inGame, drawn, gameVars>>
        /\ making'[t] = Nothing /\ \A u \in Threads \ {t} : making'[u] = making[u]
        /\ \A u \in Threads : tpc'[u] = "idle" => making'[u] = Nothing
        /\ making[t].word = "ELSEWHERE"
    BY <1>2, <1>3 DEF SendElsewhere, sceneVars
  <2>2. Idle' /\ Starting' /\ InOrder'
    BY <2>1 DEF Idle, Starting, InOrder, gameVars
  <2>3. Before' /\ HandlerTells(making["handler"])'
    BY <2>1, Words DEF Before, HandlerTells, Threads, gameVars
  <2>4. Created'
    <3>1. \A x : Create(x) # Nothing
      BY Words
    <3> QED
      BY <2>1, <3>1 DEF Created, Threads, gameVars
  <2>5. ASSUME NEW q \in Tidings PROVE UnderWay(q)' <=> UnderWay(q)
    <3>1. q # Nothing /\ q # making[t]
      BY <2>1, TidingsWords, Words
    <3> QED
      BY <2>1, <3>1 DEF UnderWay
  <2> QED
    BY <2>1, <2>2, <2>3, <2>4, <2>5, SameWay DEF gameVars
<1>4. CASE Push(t)
  <2>1. /\ UNCHANGED <<slot, unseen, inGame, drawn, born, things, cleared>>
        /\ running' = (running \/ making[t].word = "GAME_START")
        /\ Returns(t) /\ tpc[t] = "push" /\ making[t].word # "ELSEWHERE"
    BY <1>4 DEF Push, sceneVars
  <2>2. PICK n \in Number(t) : stream' = Append(stream, [packet |-> making[t], nr |-> n])
    BY <1>4, Zenon DEF Push
  <2>3. /\ making'[t] = Nothing /\ \A u \in Threads \ {t} : making'[u] = making[u]
        /\ \A u \in Threads : tpc'[u] = "idle" => making'[u] = Nothing
        /\ making[t] \in Packets
    BY <1>2, <2>1
  <2>4. /\ Len(stream') = Len(stream) + 1 /\ Len(stream) \in Nat
        /\ \A i \in 1 .. Len(stream) : stream'[i].packet = stream[i].packet
        /\ stream'[Len(stream) + 1].packet = making[t]
    <3>1. n \in Nat \ {0}
      BY <2>1 DEF Number, Counted, StreamInv, StreamTypeOK
    <3>2. [packet |-> making[t], nr |-> n] \in Numbered /\ stream \in Seq(Numbered)
      BY <2>3, <3>1 DEF Numbered, StreamInv, StreamTypeOK
    <3> QED
      BY <2>2, <3>2, AppendProperties
  <2>5. Idle'
    BY <2>1, <2>3 DEF Idle
  <2>6. Before'
    <3> SUFFICES ASSUME ~running'
                 PROVE  /\ born' = {} /\ slot' = Nothing /\ making'["game"] = Nothing
                        /\ making'["handler"].word
                               \in {"NONE", "HEARTBEAT", "ELSEWHERE", "GAME_START"}
                        /\ \A i \in 1 .. Len(stream') : stream'[i].packet.word = "HEARTBEAT"
      BY DEF Before
    <3>1. ~running /\ making[t].word # "GAME_START"
      BY <2>1
    <3>2. t = "handler" /\ making[t].word = "HEARTBEAT"
      BY <2>1, <2>3, <3>1, Words DEF Before, Threads
    <3>3. \A i \in 1 .. Len(stream') : stream'[i].packet.word = "HEARTBEAT"
      <4>1. ASSUME NEW i \in 1 .. Len(stream') PROVE stream'[i].packet.word = "HEARTBEAT"
        <5>1. i \in 1 .. Len(stream) \/ i = Len(stream) + 1
          BY <2>4
        <5> QED
          BY <2>4, <3>1, <3>2, <5>1 DEF Before
      <4> QED
        BY <4>1
    <3> QED
      BY <2>1, <2>3, <3>1, <3>2, <3>3, Words DEF Before, Threads
  <2>7. Starting'
    <3> SUFFICES ASSUME running', ~inGame, slot # Say("GAME_START")
                 PROVE  /\ slot = Nothing
                        /\ \E i \in 1 .. Len(stream') :
                               /\ stream'[i].packet = Say("GAME_START")
                               /\ \A j \in 1 .. Len(stream') :
                                      j < i => stream'[j].packet.word = "HEARTBEAT"
      BY <2>1 DEF Starting
    <3>1. CASE running
      <4>1. slot = Nothing
        BY <3>1 DEF Starting
      <4>2. PICK i \in 1 .. Len(stream) :
                /\ stream[i].packet = Say("GAME_START")
                /\ \A j \in 1 .. Len(stream) : j < i => stream[j].packet.word = "HEARTBEAT"
        BY <3>1 DEF Starting
      <4>3. i \in 1 .. Len(stream') /\ stream'[i].packet = Say("GAME_START")
        BY <2>4, <4>2
      <4>4. \A j \in 1 .. Len(stream') : j < i => stream'[j].packet.word = "HEARTBEAT"
        BY <2>4, <4>2
      <4> QED
        BY <4>1, <4>3, <4>4
    <3>2. CASE ~running
      <4>1. making[t] = Say("GAME_START") /\ slot = Nothing
        BY <2>1, <2>3, <3>2, Words DEF Before
      <4>2. \A j \in 1 .. Len(stream') :
                j < Len(stream) + 1 => stream'[j].packet.word = "HEARTBEAT"
        BY <2>4, <3>2 DEF Before
      <4>3. Len(stream) + 1 \in 1 .. Len(stream')
        BY <2>4
      <4> QED
        BY <2>4, <4>1, <4>2, <4>3
    <3> QED
      BY <3>1, <3>2
  <2>8. HandlerTells(making["handler"])'
    BY <2>3, Words DEF HandlerTells, Threads
  <2>9. Created'
    <3>1. \A x : Create(x) # Nothing
      BY Words
    <3> QED
      BY <2>1, <2>3, <3>1 DEF Created, Threads
  <2>10. InOrder'
    <3> SUFFICES ASSUME NEW x \in Figures, NEW j \in 1 .. Len(stream'),
                        stream'[j].packet = Create(x)
                 PROVE  /\ slot # Destroy(x)
                        /\ \A i \in 1 .. Len(stream') :
                               i < j => stream'[i].packet # Destroy(x)
      BY <2>1 DEF InOrder
    <3>1. CASE j \in 1 .. Len(stream)
      BY <2>4, <3>1 DEF InOrder
    <3>2. CASE j = Len(stream) + 1
      <4>1. making[t] = Create(x) /\ x \in Things /\ x \notin Bullets
        BY <2>4, <3>2, StreamAssumption DEF Things
      <4>2. t = "game"
        BY <4>1, Words DEF HandlerTells, Threads
      <4>3. ~UnderWay(Destroy(x))
        BY <4>1, <4>2 DEF Created, Gone
      <4>4. \A i \in 1 .. Len(stream') : i < j => i \in 1 .. Len(stream)
        BY <2>4, <3>2
      <4> QED
        BY <2>4, <4>3, <4>4 DEF UnderWay
    <3> QED
      BY <2>4, <3>1, <3>2
  <2>11. ASSUME NEW q \in Tidings PROVE UnderWay(q)' <=> UnderWay(q)
    <3>1. q # Nothing
      BY TidingsWords, Words
    <3>2. (\E i \in 1 .. Len(stream') : stream'[i].packet = q)
              <=> (\E i \in 1 .. Len(stream) : stream[i].packet = q) \/ making[t] = q
      <4>1. Len(stream) + 1 \in 1 .. Len(stream')
        BY <2>4
      <4>2. \A i \in 1 .. Len(stream') : i \in 1 .. Len(stream) \/ i = Len(stream) + 1
        BY <2>4
      <4>3. \A i \in 1 .. Len(stream) : i \in 1 .. Len(stream')
        BY <2>4
      <4>4. ASSUME NEW i \in 1 .. Len(stream'), stream'[i].packet = q
            PROVE  (\E k \in 1 .. Len(stream) : stream[k].packet = q) \/ making[t] = q
        BY <2>4, <4>2, <4>4
      <4>5. ASSUME NEW i \in 1 .. Len(stream), stream[i].packet = q
            PROVE  \E k \in 1 .. Len(stream') : stream'[k].packet = q
        BY <2>4, <4>3, <4>5
      <4>6. making[t] = q => \E k \in 1 .. Len(stream') : stream'[k].packet = q
        BY <2>4, <4>1
      <4> QED
        BY <4>4, <4>5, <4>6
    <3>3. (\E u \in Threads : making'[u] = q) \/ making[t] = q
              <=> (\E u \in Threads : making[u] = q)
      BY <2>3, <3>1
    <3> QED
      BY <2>1, <3>2, <3>3 DEF UnderWay
  <2> QED
    BY <2>1, <2>5, <2>6, <2>7, <2>8, <2>9, <2>10, <2>11, SameWay
<1> QED
  BY <1>1, <1>3, <1>4 DEF Broadcasts

\* The client takes the oldest packet: drops it, or has it in its slot.
LEMMA ReceivesShown ==
    ASSUME StreamInv, Faithful, parseHeartBeat \/ parseMessage, ~incomplete, ~incomplete'
    PROVE  Faithful'
<1> USE DEF Faithful
<1>1. /\ UNCHANGED <<numberVars, gameVars, inGame, drawn>>
      /\ stream # <<>> /\ stream' = Tail(stream)
  BY DEF parseHeartBeat, parseMessage, Receives
<1>2. /\ Len(stream) \in Nat /\ 1 \in 1 .. Len(stream) /\ Len(stream') = Len(stream) - 1
      /\ Head(stream) = stream[1] /\ stream[1].packet \in Packets
      /\ \A i \in 1 .. Len(stream') :
             i + 1 \in 1 .. Len(stream) /\ stream'[i] = stream[i + 1]
  <2>1. stream \in Seq(Numbered)
    BY DEF StreamInv, StreamTypeOK
  <2>2. /\ Head(stream) = stream[1] /\ stream[1] \in Numbered /\ 1 \in 1 .. Len(stream)
        /\ Len(stream') = Len(stream) - 1
        /\ \A i \in 1 .. Len(stream') :
               i + 1 \in 1 .. Len(stream) /\ stream'[i] = stream[i + 1]
    BY <1>1, <2>1, TailOf
  <2>3. Len(stream) \in Nat
    BY <2>1
  <2>4. stream[1].packet \in Packets
    BY <2>2 DEF Numbered
  <2> QED
    BY <2>2, <2>3, <2>4
<1>3. \A i \in 1 .. Len(stream) :
          i = 1 \/ (i - 1 \in 1 .. Len(stream') /\ stream'[i - 1] = stream[i])
  <2>1. \A i \in 1 .. Len(stream) :
            i = 1 \/ (i - 1 \in 1 .. Len(stream') /\ (i - 1) + 1 = i)
    BY <1>2
  <2> QED
    BY <1>2, <2>1
<1>4. /\ running' = running /\ born' = born /\ things' = things /\ cleared' = cleared
      /\ making' = making /\ tpc' = tpc
  BY <1>1 DEF numberVars, gameVars
<1>5. HandlerTells(making["handler"])' /\ Created'
  BY <1>4 DEF HandlerTells, Created
<1>6. CASE parseHeartBeat
  <2>1. slot' = slot /\ unseen' = unseen /\ stream[1].packet.word = "HEARTBEAT"
    BY <1>2, <1>6 DEF parseHeartBeat, Receives
  <2>2. Idle'
    BY <1>4, <2>1 DEF Idle
  <2>3. Before'
    BY <1>2, <1>4, <2>1 DEF Before
  <2>4. Starting'
    <3> SUFFICES ASSUME running, ~inGame, slot # Say("GAME_START")
                 PROVE  /\ slot = Nothing
                        /\ \E i \in 1 .. Len(stream') :
                               /\ stream'[i].packet = Say("GAME_START")
                               /\ \A j \in 1 .. Len(stream') :
                                      j < i => stream'[j].packet.word = "HEARTBEAT"
      BY <1>1, <1>4, <2>1 DEF Starting
    <3>1. PICK i \in 1 .. Len(stream) :
              /\ stream[i].packet = Say("GAME_START")
              /\ \A j \in 1 .. Len(stream) : j < i => stream[j].packet.word = "HEARTBEAT"
      BY DEF Starting
    <3>2. i # 1
      BY <2>1, <3>1, Words
    <3>3. i - 1 \in 1 .. Len(stream') /\ stream'[i - 1].packet = Say("GAME_START")
      BY <1>3, <3>1, <3>2
    <3>4. \A j \in 1 .. Len(stream') : j < i - 1 => stream'[j].packet.word = "HEARTBEAT"
      <4>1. \A j \in 1 .. Len(stream') : j < i - 1 => j + 1 < i
        BY <1>2
      <4> QED
        BY <1>2, <3>1, <4>1
    <3>5. slot = Nothing
      BY DEF Starting
    <3> QED
      BY <3>3, <3>4, <3>5
  <2>5. InOrder'
    <3> SUFFICES ASSUME NEW x \in Figures, NEW j \in 1 .. Len(stream'),
                        stream'[j].packet = Create(x)
                 PROVE  /\ slot # Destroy(x)
                        /\ \A i \in 1 .. Len(stream') :
                               i < j => stream'[i].packet # Destroy(x)
      BY <2>1 DEF InOrder
    <3>1. j + 1 \in 1 .. Len(stream) /\ stream[j + 1].packet = Create(x)
      BY <1>2
    <3>2. \A i \in 1 .. Len(stream') : i < j => i + 1 < j + 1
      BY <1>2
    <3> QED
      BY <1>2, <3>1, <3>2 DEF InOrder
  <2>6. ASSUME NEW q \in Tidings PROVE UnderWay(q)' <=> UnderWay(q)
    <3>1. stream[1].packet # q
      BY <2>1, TidingsWords
    <3>2. (\E i \in 1 .. Len(stream') : stream'[i].packet = q)
              <=> \E i \in 1 .. Len(stream) : stream[i].packet = q
      <4>1. ASSUME NEW i \in 1 .. Len(stream'), stream'[i].packet = q
            PROVE  \E k \in 1 .. Len(stream) : stream[k].packet = q
        BY <1>2, <4>1
      <4>2. ASSUME NEW i \in 1 .. Len(stream), stream[i].packet = q
            PROVE  \E k \in 1 .. Len(stream') : stream'[k].packet = q
        BY <1>3, <3>1, <4>2
      <4> QED
        BY <4>1, <4>2
    <3> QED
      BY <1>4, <2>1, <3>2 DEF UnderWay
  <2> QED
    BY <1>1, <1>4, <1>5, <2>2, <2>3, <2>4, <2>5, <2>6, SameWay
<1>7. CASE parseMessage
  <2>1. /\ slot' = stream[1].packet /\ unseen' = TRUE /\ ~unseen /\ slot = Nothing
        /\ stream[1].packet.word # "HEARTBEAT"
    BY <1>2, <1>7 DEF parseMessage, Receives, Idle
  <2>2. Idle'
    BY <1>4, <2>1 DEF Idle
  <2>3. running
    BY <1>2, <2>1 DEF Before
  <2>4. Before'
    BY <1>4, <2>3 DEF Before
  <2>5. Starting'
    <3> SUFFICES ASSUME ~inGame PROVE slot' = Say("GAME_START")
      BY <1>1 DEF Starting
    <3>1. Nothing # Say("GAME_START")
      BY Words
    <3>2. PICK i \in 1 .. Len(stream) :
              /\ stream[i].packet = Say("GAME_START")
              /\ \A j \in 1 .. Len(stream) : j < i => stream[j].packet.word = "HEARTBEAT"
      BY <2>1, <2>3, <3>1 DEF Starting
    <3>3. i = 1
      BY <1>2, <2>1, <3>2
    <3> QED
      BY <2>1, <3>2, <3>3
  <2>6. InOrder'
    <3> SUFFICES ASSUME NEW x \in Figures, NEW j \in 1 .. Len(stream'),
                        stream'[j].packet = Create(x)
                 PROVE  /\ slot' # Destroy(x)
                        /\ \A i \in 1 .. Len(stream') :
                               i < j => stream'[i].packet # Destroy(x)
      BY DEF InOrder
    <3>1. j + 1 \in 1 .. Len(stream) /\ stream[j + 1].packet = Create(x)
      BY <1>2
    <3>2. 1 < j + 1 /\ \A i \in 1 .. Len(stream') : i < j => i + 1 < j + 1
      BY <1>2
    <3> QED
      BY <1>2, <2>1, <3>1, <3>2 DEF InOrder
  <2>7. ASSUME NEW q \in Tidings PROVE UnderWay(q)' <=> UnderWay(q)
    <3>1. slot # q
      BY <2>1, TidingsWords, Words
    <3>2. (\E i \in 1 .. Len(stream') : stream'[i].packet = q) \/ slot' = q
              <=> \E i \in 1 .. Len(stream) : stream[i].packet = q
      <4>1. ASSUME NEW i \in 1 .. Len(stream'), stream'[i].packet = q
            PROVE  \E k \in 1 .. Len(stream) : stream[k].packet = q
        BY <1>2, <4>1
      <4>2. ASSUME NEW i \in 1 .. Len(stream), stream[i].packet = q
            PROVE  slot' = q \/ \E k \in 1 .. Len(stream') : stream'[k].packet = q
        BY <1>3, <2>1, <4>2
      <4>3. slot' = q => \E k \in 1 .. Len(stream) : stream[k].packet = q
        BY <1>2, <2>1
      <4> QED
        BY <4>1, <4>2, <4>3
    <3> QED
      BY <1>4, <3>1, <3>2 DEF UnderWay
  <2> QED
    BY <1>1, <1>4, <1>5, <2>2, <2>4, <2>5, <2>6, <2>7, SameWay
<1> QED
  BY <1>6, <1>7

\* A frame acts upon the slot and empties it.
LEMMA FrameShown ==
    ASSUME StreamInv, Faithful, NEW click \in BOOLEAN, Frame(click)
    PROVE  Faithful'
<1> USE DEF Faithful
<1>1. /\ UNCHANGED <<numberVars, gameVars, stream>> /\ unseen' = FALSE
      /\ inGame' = (inGame \/ click \/ slot.word = "GAME_START")
      /\ drawn' = IF inGame' THEN Sprites(slot) ELSE drawn
      /\ slot' = IF inGame' THEN Nothing ELSE slot
  BY DEF Frame
<1>2. /\ running' = running /\ born' = born /\ things' = things /\ cleared' = cleared
      /\ making' = making /\ tpc' = tpc /\ stream' = stream
  BY <1>1 DEF numberVars, gameVars
<1>3. slot' = Nothing
  <2> SUFFICES ASSUME ~inGame' PROVE slot = Nothing
    BY <1>1
  <2>1. ~inGame /\ slot.word # "GAME_START"
    BY <1>1
  <2>2. slot # Say("GAME_START")
    BY <2>1, Words
  <2> QED
    BY <2>1, <2>2 DEF Before, Starting
<1>4. \A x : Nothing # Create(x) /\ Nothing # Destroy(x) /\ Nothing # Say("GAME_START")
  BY Words
<1>5. Idle' /\ Before' /\ HandlerTells(making["handler"])' /\ Created' /\ InOrder'
  BY <1>1, <1>2, <1>3, <1>4 DEF Idle, Before, HandlerTells, Created, InOrder
<1>6. Starting'
  <2> SUFFICES ASSUME running, ~inGame' PROVE Starting'
    BY <1>2 DEF Starting
  <2>1. ~inGame /\ slot # Say("GAME_START")
    BY <1>1, Words
  <2> QED
    BY <1>2, <1>3, <2>1 DEF Starting
<1>7. \A q \in Tidings : UnderWay(q) <=> UnderWay(q)' \/ slot = q
  BY <1>2, <1>3, TidingsWords, Words DEF UnderWay
<1>8. \A x \in Things : Create(x) \in Tidings /\ Destroy(x) \in Tidings
  BY DEF Tidings
<1>9. things \subseteq Things /\ Figures \subseteq Things
  BY DEF StreamInv, StreamTypeOK, Things
<1>10. \A x \in Things : slot = Create(x) \/ slot = Destroy(x) => inGame'
  BY <1>1, <1>3, <1>4
<1>11. Gone'
  BY <1>2, <1>7, <1>8 DEF Gone
<1>12. Arrives'
  <2> SUFFICES ASSUME NEW x \in things PROVE x \in drawn' \/ UnderWay(Create(x))'
    BY <1>2 DEF Arrives
  <2>1. x \in drawn \/ UnderWay(Create(x))'\/ slot = Create(x)
    BY <1>7, <1>8, <1>9 DEF Arrives
  <2>2. slot # Destroy(x)
    BY <1>9 DEF Gone, UnderWay
  <2>3. slot = Create(x) => x \in drawn'
    BY <1>1, <1>9, <1>10, Words DEF Sprites
  <2>4. x \in drawn => x \in drawn'
    <3>1. ASSUME slot.word = "DESTROY", slot.thing = x PROVE slot = Destroy(x)
      BY <3>1, Words DEF StreamInv, StreamTypeOK
    <3> QED
      BY <1>1, <2>2, <3>1 DEF Sprites
  <2> QED
    BY <2>1, <2>3, <2>4
<1>13. Lasts'
  <2> SUFFICES ASSUME NEW x \in Figures, x \in drawn' \/ UnderWay(Create(x))'
               PROVE  x \in things \cup cleared \/ UnderWay(Destroy(x))'
    BY <1>2 DEF Lasts
  <2>1. x \in Things
    BY <1>9
  <2>2. x \in drawn \/ UnderWay(Create(x))
    <3>1. ASSUME slot.word = "CREATE", slot.thing = x PROVE slot = Create(x)
      BY <3>1, Words DEF StreamInv, StreamTypeOK
    <3>2. x \in drawn' => x \in drawn \/ slot = Create(x)
      BY <1>1, <3>1 DEF Sprites
    <3> QED
      BY <1>7, <1>8, <2>1, <3>2
  <2>3. x \in things \cup cleared \/ UnderWay(Destroy(x))' \/ slot = Destroy(x)
    BY <1>7, <1>8, <2>1, <2>2 DEF Lasts
  <2>4. ASSUME slot = Destroy(x) PROVE FALSE
    <3>1. x \notin drawn'
      BY <1>1, <1>10, <2>1, <2>4, Words DEF Sprites
    <3>2. \A j \in 1 .. Len(stream) : stream[j].packet # Create(x)
      BY <2>4 DEF InOrder
    <3>3. making["handler"] # Create(x)
      BY Words, StreamAssumption DEF HandlerTells
    <3>4. making["game"] # Create(x)
      BY <2>1, <2>4 DEF Created, Gone, UnderWay
    <3>5. ~UnderWay(Create(x))'
      BY <1>2, <1>3, <1>4, <3>2, <3>3, <3>4 DEF UnderWay, Threads
    <3> QED
      BY <3>1, <3>5
  <2> QED
    BY <2>3, <2>4
<1> QED
  BY <1>5, <1>6, <1>11, <1>12, <1>13

LEMMA ShownInvStep ==
    ASSUME StreamInv, ShownInv, [StreamNext]_streamVars
    PROVE  ShownInv'
<1> SUFFICES ASSUME ~incomplete' PROVE Faithful'
  BY DEF ShownInv
<1>1. CASE \/ handleGameStart \/ Answer \/ Update
           \/ \E x \in Figures : Spawn("game", x)
           \/ \E x \in Bullets : Spawn("handler", x)
           \/ \E x \in things : Remove(x)
  <2>1. ~incomplete
    BY <1>1 DEF handleGameStart, Answer, Update, Spawn, Remove
  <2> QED
    BY <1>1, <2>1, TellsShown DEF ShownInv
<1>2. ASSUME NEW t \in Threads, Broadcasts(t) PROVE Faithful'
  <2>1. ~incomplete
    BY <1>2 DEF Broadcasts, Store, Push, SendElsewhere
  <2> QED
    BY <1>2, <2>1, BroadcastShown DEF ShownInv
<1>3. CASE parseHeartBeat \/ parseMessage
  <2>1. ~incomplete
    BY <1>3 DEF parseHeartBeat, parseMessage
  <2> QED
    BY <1>3, <2>1, ReceivesShown DEF ShownInv
<1>4. ASSUME NEW click \in BOOLEAN, Frame(click) PROVE Faithful'
  <2>1. ~incomplete
    BY <1>4 DEF Frame
  <2> QED
    BY <1>4, <2>1, FrameShown DEF ShownInv
<1>5. CASE handleGameEnd
  <2>1. /\ UNCHANGED <<numberVars, running, born, stream, sceneVars>> /\ ~incomplete
        /\ things' = {} /\ cleared' = cleared \cup things
    BY <1>5 DEF handleGameEnd
  <2>2. /\ making' = making /\ tpc' = tpc /\ stream' = stream /\ slot' = slot
        /\ unseen' = unseen /\ inGame' = inGame /\ drawn' = drawn
        /\ running' = running /\ born' = born
    BY <2>1 DEF numberVars, sceneVars
  <2>3. Faithful
    BY <2>1 DEF ShownInv
  <2>4. Idle' /\ Before' /\ Starting' /\ HandlerTells(making["handler"])' /\ InOrder'
    BY <2>2, <2>3 DEF Faithful, Idle, Before, Starting, HandlerTells, InOrder
  <2>5. Created' /\ Gone' /\ Arrives' /\ Lasts'
    BY <2>1, <2>2, <2>3 DEF Faithful, Created, Gone, Arrives, Lasts, UnderWay
  <2> QED
    BY <2>4, <2>5 DEF Faithful
<1>6. CASE FrameMisses \/ UNCHANGED streamVars
  <2>1. UNCHANGED <<numberVars, gameVars, stream, slot, unseen, inGame, drawn, incomplete>>
    BY <1>6 DEF FrameMisses, streamVars, sceneVars
  <2>2. Faithful
    BY <2>1 DEF ShownInv
  <2> QED
    BY <2>1, <2>2 DEF Faithful, Idle, Before, Starting, HandlerTells, Created, Gone, InOrder,
                      Arrives, Lasts, UnderWay, numberVars, gameVars
<1>7. CASE Lose \/ FrameWipes
  BY <1>7 DEF Lose, FrameWipes
<1> QED
  BY <1>1, <1>2, <1>3, <1>4, <1>5, <1>6, <1>7 DEF StreamNext

(***************************************************************************)
(* When all that was told has been looked at, the client draws the figures *)
(* of the game and at least its bullets, for any number of them and any    *)
(* length of the stream (PacketHandler.cpp:90-95, GameScene.cpp:86-124).   *)
(***************************************************************************)
THEOREM StreamShown == StreamSpec => []Shown
<1>1. StreamInit => ShownInv
  BY Words DEF StreamInit, ShownInv, Faithful, Idle, Before, Starting, HandlerTells, Created,
               Gone, InOrder, Arrives, Lasts, UnderWay, Threads
<1>2. StreamInv /\ ShownInv => Shown
  <2> SUFFICES ASSUME StreamInv, ShownInv, Settled
               PROVE  things \subseteq drawn /\ drawn \subseteq things \cup cleared \cup Bullets
    BY DEF Shown
  <2>1. Faithful /\ stream = <<>> /\ slot = Nothing /\ \A t \in Threads : making[t] = Nothing
    BY DEF Settled, Numbering, ShownInv, Faithful, Idle
  <2>2. \A x : ~UnderWay(Create(x)) /\ ~UnderWay(Destroy(x))
    <3>1. \A x : Nothing # Create(x) /\ Nothing # Destroy(x)
      BY Words
    <3>2. 1 .. Len(stream) = {}
      BY <2>1
    <3> QED
      BY <2>1, <3>1, <3>2 DEF UnderWay
  <2>3. drawn \subseteq Things
    BY DEF StreamInv, StreamTypeOK
  <2> QED
    BY <2>1, <2>2, <2>3 DEF Faithful, Arrives, Lasts, Things
<1> QED
  BY <1>1, <1>2, StreamInitInv, StreamInvStep, ShownInvStep, PTL DEF StreamSpec
================================================================================
