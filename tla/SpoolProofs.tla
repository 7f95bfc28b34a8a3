---------------------------- MODULE SpoolProofs ----------------------------
(***************************************************************************)
(* Proofs about Spool, for every set of records, whatever the ledger       *)
(* accepts of them and any number of faults.                               *)
(*                                                                         *)
(* The argument: from its read to its rename the replay works on a prefix  *)
(* of the file, so what it puts in the file's place is the file from the   *)
(* first line it has not dealt with, less what was appended after it read  *)
(* the tail.                                                               *)
(***************************************************************************)
EXTENDS Spool, SequenceTheorems, TLAPS

-----------------------------------------------------------------------------
(* The inductive invariant.                                                *)

\* The replay works on what it read: from the read to the rename.
Reading == {"post", "tail", "replace"}

\* The lines the replay read are still the first lines of the file: until the
\* rename the file is only ever appended to.
LinesRead ==
    replay.pc \in Reading =>
        /\ Len(replay.lines) <= Len(spool)
        /\ replay.next <= Len(replay.lines) + 1
        /\ \A i \in 1..Len(replay.lines) : replay.lines[i] = spool[i]

\* What was sent is in the ledger, or was answered 400 or 409.
LinesSent ==
    replay.pc \in Reading =>
        \A i \in 1..Len(replay.lines) : i < replay.next /\ replay.lines[i] \in Accepted =>
            rows[replay.lines[i]] > 0 \/ replay.lines[i] \in refused

\* What was not sent remains.
LinesLeft ==
    /\ replay.pc = "post" => replay.remaining = <<>>
    /\ replay.pc \in {"tail", "replace"} =>
        /\ Len(replay.remaining) = Len(replay.lines) + 1 - replay.next
        /\ \A i \in 1..Len(replay.remaining) :
              replay.remaining[i] = spool[replay.next - 1 + i]

\* The tail is what was appended, but for appends that met the rewrite.
TailRead ==
    replay.pc = "replace" =>
        /\ Len(replay.lines) + Len(replay.tail) <= Len(spool)
        /\ \A i \in 1..Len(replay.tail) : replay.tail[i] = spool[Len(replay.lines) + i]
        /\ \A i \in 1..Len(spool) :
              i > Len(replay.lines) + Len(replay.tail) => spool[i] \in overlapped

\* A refused line was sent, and is in no file once the spool is rewritten.
Judged ==
    /\ IsInjective(replay.rejected)
    /\ Range(replay.rejected) \intersect Accepted \subseteq refused
    /\ replay.pc \in Reading =>
          \A x \in Range(replay.rejected) :
              \E i \in 1..Len(replay.lines) : i < replay.next /\ x = replay.lines[i]
    /\ replay.pc = "quarantine" =>
          /\ IsInjective(replay.remaining \o replay.tail)
          /\ \A x \in Range(replay.rejected) :
                writer[x] = "written" /\ x \notin Range(spool) /\ x \notin Range(quarantine)
    /\ replay.pc = "idle" => replay = Idle

\* No line is in two places, and none is there before it is written.
Placed ==
    /\ IsInjective(spool)
    /\ IsInjective(quarantine)
    /\ \A x \in Range(spool) : writer[x] = "written" /\ x \notin Range(quarantine)
    /\ \A x \in Range(quarantine) :
          writer[x] = "written" /\ (x \in Accepted => x \in refused)

\* An append to a file without a name is one that met the rewrite.
StaleKnown == \A r \in Records : writer[r] = "stale" => r \in overlapped

IInv ==
    /\ TypeOK
    /\ LinesRead
    /\ LinesSent
    /\ LinesLeft
    /\ TailRead
    /\ Judged
    /\ Placed
    /\ StaleKnown
    /\ SpooledNotLost

-----------------------------------------------------------------------------
(* Files as sequences of lines.                                            *)

\* A sequence line by line.
LEMMA SeqLines ==
    ASSUME NEW S, NEW s \in Seq(S)
    PROVE  /\ Len(s) \in Nat
           /\ DOMAIN s = 1..Len(s)
           /\ \A i \in 1..Len(s) : s[i] \in S /\ s[i] \in Range(s)
           /\ \A x \in Range(s) : \E i \in 1..Len(s) : x = s[i]
           /\ Range(s) \subseteq S
           /\ IsInjective(s) <=> \A i, j \in 1..Len(s) : s[i] = s[j] => i = j
<1>1. /\ Len(s) \in Nat /\ s \in [1..Len(s) -> S] /\ DOMAIN s = 1..Len(s)
  BY LenProperties
<1> QED
  BY <1>1 DEF Range, IsInjective

\* One line more, which is not there yet.
LEMMA AppendLine ==
    ASSUME NEW S, NEW s \in Seq(S), NEW e \in S
    PROVE  /\ Append(s, e) \in Seq(S)
           /\ Len(Append(s, e)) = Len(s) + 1
           /\ \A i \in 1..Len(s) : Append(s, e)[i] = s[i]
           /\ Append(s, e)[Len(s) + 1] = e
           /\ \A x : x \in Range(Append(s, e)) <=> x \in Range(s) \/ x = e
           /\ IsInjective(s) /\ e \notin Range(s) => IsInjective(Append(s, e))
<1> DEFINE t == Append(s, e)
<1>1. /\ t \in Seq(S) /\ Len(t) = Len(s) + 1
      /\ \A i \in 1..Len(s) : t[i] = s[i]
      /\ t[Len(s) + 1] = e
  BY AppendProperties
<1> HIDE DEF t
<1>2. /\ Len(s) \in Nat /\ DOMAIN s = 1..Len(s)
  BY SeqLines
<1>3. DOMAIN t = 1..Len(s) + 1
  BY <1>1, SeqLines
<1>4. \A x : x \in Range(t) <=> x \in Range(s) \/ x = e
  <2>1. ASSUME NEW x \in Range(t) PROVE x \in Range(s) \/ x = e
    <3>1. PICK i \in 1..Len(s) + 1 : x = t[i]
      BY <1>3, <2>1 DEF Range
    <3>2. CASE i = Len(s) + 1
      BY <1>1, <3>1, <3>2
    <3>3. CASE i \in 1..Len(s)
      BY <1>1, <1>2, <3>1, <3>3 DEF Range
    <3> QED
      BY <1>2, <3>2, <3>3
  <2>2. ASSUME NEW x \in Range(s) PROVE x \in Range(t)
    <3>1. PICK i \in 1..Len(s) : x = s[i]
      BY <1>2, <2>2 DEF Range
    <3>2. i \in 1..Len(s) + 1 /\ x = t[i]
      BY <1>1, <1>2, <3>1
    <3> QED
      BY <1>3, <3>2 DEF Range
  <2>3. e \in Range(t)
    <3>1. Len(s) + 1 \in 1..Len(s) + 1
      BY <1>2
    <3> QED
      BY <1>1, <1>3, <3>1 DEF Range
  <2> QED
    BY <2>1, <2>2, <2>3
<1>5. ASSUME IsInjective(s), e \notin Range(s) PROVE IsInjective(t)
  <2> SUFFICES ASSUME NEW i \in 1..Len(s) + 1, NEW j \in 1..Len(s) + 1, t[i] = t[j]
               PROVE  i = j
    BY <1>3 DEF IsInjective
  <2>1. \A k \in 1..Len(s) : s[k] # e
    BY <1>2, <1>5 DEF Range
  <2> QED
    BY <1>1, <1>2, <1>5, <2>1 DEF IsInjective
<1> QED
  BY <1>1, <1>4, <1>5 DEF t

\* Two files one after the other, with no line in common.
LEMMA ConcatLines ==
    ASSUME NEW S, NEW s \in Seq(S), NEW t \in Seq(S)
    PROVE  /\ s \o t \in Seq(S)
           /\ \A x : x \in Range(s \o t) <=> x \in Range(s) \/ x \in Range(t)
           /\ IsInjective(s) /\ IsInjective(t) /\ Range(s) \intersect Range(t) = {} =>
                 IsInjective(s \o t)
<1> DEFINE u == s \o t
<1>1. /\ u \in Seq(S) /\ Len(u) = Len(s) + Len(t)
      /\ \A i \in 1..Len(s) + Len(t) : u[i] = IF i <= Len(s) THEN s[i] ELSE t[i - Len(s)]
  BY ConcatProperties
<1>2. Range(u) = Range(s) \union Range(t)
  BY RangeConcatenation
<1> HIDE DEF u
<1>3. /\ Len(s) \in Nat /\ DOMAIN s = 1..Len(s) /\ Len(t) \in Nat /\ DOMAIN t = 1..Len(t)
  BY SeqLines
<1>4. DOMAIN u = 1..Len(s) + Len(t)
  BY <1>1, SeqLines
<1>5. ASSUME IsInjective(s), IsInjective(t), Range(s) \intersect Range(t) = {}
      PROVE  IsInjective(u)
  <2> SUFFICES ASSUME NEW i \in 1..Len(s) + Len(t), NEW j \in 1..Len(s) + Len(t), u[i] = u[j]
               PROVE  i = j
    BY <1>4 DEF IsInjective
  <2>1. \A k \in 1..Len(s), m \in 1..Len(t) : s[k] # t[m]
    BY <1>3, <1>5 DEF Range
  <2>2. CASE i <= Len(s) /\ j <= Len(s)
    BY <1>1, <1>3, <1>5, <2>2 DEF IsInjective
  <2>3. CASE i > Len(s) /\ j > Len(s)
    <3>1. /\ u[i] = t[i - Len(s)] /\ u[j] = t[j - Len(s)]
          /\ i - Len(s) \in 1..Len(t) /\ j - Len(s) \in 1..Len(t)
      BY <1>1, <1>3, <2>3
    <3>2. i - Len(s) = j - Len(s)
      BY <1>3, <1>5, <3>1 DEF IsInjective
    <3> QED
      BY <1>3, <3>2
  <2>4. CASE i <= Len(s) /\ j > Len(s)
    <3>1. u[i] = s[i] /\ u[j] = t[j - Len(s)] /\ i \in 1..Len(s) /\ j - Len(s) \in 1..Len(t)
      BY <1>1, <1>3, <2>4
    <3> QED
      BY <2>1, <3>1
  <2>5. CASE i > Len(s) /\ j <= Len(s)
    <3>1. u[j] = s[j] /\ u[i] = t[i - Len(s)] /\ j \in 1..Len(s) /\ i - Len(s) \in 1..Len(t)
      BY <1>1, <1>3, <2>5
    <3> QED
      BY <2>1, <3>1
  <2> QED
    BY <1>3, <2>2, <2>3, <2>4, <2>5
<1> QED
  BY <1>1, <1>2, <1>5 DEF u

\* The lines from m to the end.
LEMMA RestOfLines ==
    ASSUME NEW S, NEW s \in Seq(S), NEW m \in 1..Len(s) + 1
    PROVE  LET t == SubSeq(s, m, Len(s))
           IN  /\ t \in Seq(S)
               /\ Len(t) = Len(s) + 1 - m
               /\ \A i \in 1..Len(t) : t[i] = s[m - 1 + i]
<1>1. Len(s) \in Nat /\ \A i \in 1..Len(s) : s[i] \in S
  BY SeqLines
<1>2. m \in Int /\ Len(s) \in Int /\ \A i \in m..Len(s) : s[i] \in S
  BY <1>1
<1> DEFINE t == SubSeq(s, m, Len(s))
<1>3. /\ t \in Seq(S)
      /\ Len(t) = IF m <= Len(s) THEN Len(s) - m + 1 ELSE 0
      /\ \A i \in 1..Len(s) - m + 1 : t[i] = s[m + i - 1]
  BY <1>2, SubSeqProperties
<1> HIDE DEF t
<1>4. Len(t) = Len(s) + 1 - m
  BY <1>1, <1>3
<1>5. ASSUME NEW i \in 1..Len(t) PROVE t[i] = s[m - 1 + i]
  <2>1. i \in 1..Len(s) - m + 1 /\ m + i - 1 = m - 1 + i
    BY <1>1, <1>4
  <2> QED
    BY <1>3, <2>1
<1> QED
  BY <1>3, <1>4, <1>5 DEF t

-----------------------------------------------------------------------------
(* The training processes.                                                 *)

\* A record that is not spooled yet is in no file and in no replay.
LEMMA NotSpooled ==
    ASSUME IInv, NEW r \in Records, writer[r] # "written"
    PROVE  /\ r \notin Range(spool) /\ r \notin Range(quarantine)
           /\ replay.pc = "quarantine" => r \notin Range(replay.rejected)
  BY DEF IInv, Placed, Judged

\* Opening the file, or failing to, changes no file.
LEMMA WriterStep ==
    ASSUME IInv, NEW r \in Records, OpenSpool(r) \/ SpoolFails(r)
    PROVE  IInv'
<1>1. /\ writer[r] # "written" /\ writer'[r] \in {"open", "failed"}
      /\ writer' \in [Records -> {"training", "open", "stale", "written", "failed"}]
      /\ \A x \in Records \ {r} : writer'[x] = writer[x]
      /\ UNCHANGED <<spool, rows, quarantine, replay, faults, overlapped, refused>>
  BY DEF OpenSpool, SpoolFails, IInv, TypeOK
<1>2. /\ r \notin Range(spool) /\ r \notin Range(quarantine)
      /\ replay.pc = "quarantine" => r \notin Range(replay.rejected)
  BY <1>1, NotSpooled
<1>3. Range(spool) \subseteq Records /\ Range(quarantine) \subseteq Records
      /\ Range(replay.rejected) \subseteq Records
  BY SeqLines DEF IInv, TypeOK
<1>4. TypeOK'
  BY <1>1 DEF IInv, TypeOK
<1>5. LinesRead' /\ LinesSent' /\ LinesLeft' /\ TailRead'
  BY <1>1 DEF IInv, LinesRead, LinesSent, LinesLeft, TailRead
<1>6. Judged'
  BY <1>1, <1>2, <1>3 DEF IInv, Judged
<1>7. Placed'
  BY <1>1, <1>2, <1>3 DEF IInv, Placed
<1>8. StaleKnown' /\ SpooledNotLost'
  BY <1>1, SpoolAssumption DEF IInv, StaleKnown, SpooledNotLost
<1> QED
  BY <1>4, <1>5, <1>6, <1>7, <1>8 DEF IInv

\* The line goes to the end of the file, or to one that has no name any more.
LEMMA WriteStep ==
    ASSUME IInv, NEW r \in Records, WriteLine(r)
    PROVE  IInv'
<1>1. /\ writer[r] \in {"open", "stale"} /\ writer'[r] = "written"
      /\ writer' \in [Records -> {"training", "open", "stale", "written", "failed"}]
      /\ \A x \in Records \ {r} : writer'[x] = writer[x]
      /\ UNCHANGED <<rows, quarantine, replay, faults, refused>>
      /\ overlapped' = IF replay.pc = "replace" THEN overlapped \union {r} ELSE overlapped
      /\ spool' = IF writer[r] = "open" THEN Append(spool, r) ELSE spool
  BY DEF WriteLine, IInv, TypeOK
<1>2. /\ r \notin Range(spool) /\ r \notin Range(quarantine)
      /\ replay.pc = "quarantine" => r \notin Range(replay.rejected)
  BY <1>1, NotSpooled
<1>3. /\ Range(spool) \subseteq Records /\ Range(quarantine) \subseteq Records
      /\ Range(replay.rejected) \subseteq Records
      /\ Len(spool) \in Nat /\ Len(replay.lines) \in Nat /\ Len(replay.tail) \in Nat
      /\ Len(replay.remaining) \in Nat
  BY SeqLines DEF IInv, TypeOK
<1>4. overlapped \subseteq overlapped' /\ overlapped' \subseteq Records
  BY <1>1 DEF IInv, TypeOK
<1>5. CASE writer[r] = "stale"
  <2>1. spool' = spool /\ r \in overlapped
    BY <1>1, <1>5 DEF IInv, StaleKnown
  <2>2. TypeOK'
    BY <1>1, <1>4, <2>1 DEF IInv, TypeOK
  <2>3. LinesRead' /\ LinesSent' /\ LinesLeft' /\ TailRead'
    BY <1>1, <1>4, <2>1 DEF IInv, LinesRead, LinesSent, LinesLeft, TailRead
  <2>4. Judged' /\ Placed'
    BY <1>1, <1>2, <1>3, <2>1 DEF IInv, Judged, Placed
  <2>5. StaleKnown' /\ SpooledNotLost'
    BY <1>1, <1>4, <2>1, SpoolAssumption DEF IInv, StaleKnown, SpooledNotLost
  <2> QED
    BY <2>2, <2>3, <2>4, <2>5 DEF IInv
<1>6. CASE writer[r] = "open"
  <2>1. /\ spool' \in Seq(Records) /\ Len(spool') = Len(spool) + 1
        /\ \A i \in 1..Len(spool) : spool'[i] = spool[i]
        /\ spool'[Len(spool) + 1] = r
        /\ \A x : x \in Range(spool') <=> x \in Range(spool) \/ x = r
        /\ IsInjective(spool')
    BY <1>1, <1>2, <1>6, AppendLine DEF IInv, TypeOK, Placed
  <2>2. TypeOK'
    BY <1>1, <1>4, <2>1 DEF IInv, TypeOK
  <2>3. LinesRead' /\ LinesSent'
    BY <1>1, <1>3, <2>1 DEF IInv, LinesRead, LinesSent, Reading
  <2>4. LinesLeft'
    <3> SUFFICES ASSUME replay.pc \in {"tail", "replace"}, NEW i \in 1..Len(replay.remaining)
                 PROVE  replay.remaining[i] = spool'[replay.next - 1 + i]
      BY <1>1 DEF IInv, LinesLeft
    <3>1. /\ replay.remaining[i] = spool[replay.next - 1 + i]
          /\ Len(replay.remaining) = Len(replay.lines) + 1 - replay.next
          /\ Len(replay.lines) <= Len(spool)
          /\ replay.next \in Nat \ {0}
      BY DEF IInv, LinesLeft, LinesRead, Reading, TypeOK
    <3>2. replay.next - 1 + i \in 1..Len(spool)
      <4>1. \A l, m, n \in Nat, k \in Nat \ {0} :
               \A j \in 1..l : l = m + 1 - k /\ m <= n => k - 1 + j \in 1..n
        OBVIOUS
      <4> QED
        BY <1>3, <3>1, <4>1
    <3> QED
      BY <2>1, <3>1, <3>2
  <2>5. TailRead'
    <3> SUFFICES ASSUME replay.pc = "replace"
                 PROVE  /\ Len(replay.lines) + Len(replay.tail) <= Len(spool')
                        /\ \A i \in 1..Len(replay.tail) :
                              replay.tail[i] = spool'[Len(replay.lines) + i]
                        /\ \A i \in 1..Len(spool') :
                              i > Len(replay.lines) + Len(replay.tail) =>
                                  spool'[i] \in overlapped'
      BY <1>1 DEF TailRead
    <3>1. /\ Len(replay.lines) + Len(replay.tail) <= Len(spool)
          /\ \A i \in 1..Len(replay.tail) : replay.tail[i] = spool[Len(replay.lines) + i]
          /\ \A i \in 1..Len(spool) :
                i > Len(replay.lines) + Len(replay.tail) => spool[i] \in overlapped
      BY DEF IInv, TailRead
    <3>2. r \in overlapped'
      BY <1>1
    <3>3. ASSUME NEW i \in 1..Len(replay.tail)
          PROVE  replay.tail[i] = spool'[Len(replay.lines) + i]
      <4>1. Len(replay.lines) + i \in 1..Len(spool)
        <5>1. \A l, m, n \in Nat : \A j \in 1..m : l + m <= n => l + j \in 1..n
          OBVIOUS
        <5> QED
          BY <1>3, <3>1, <5>1
      <4> QED
        BY <2>1, <3>1, <4>1
    <3>4. ASSUME NEW i \in 1..Len(spool'), i > Len(replay.lines) + Len(replay.tail)
          PROVE  spool'[i] \in overlapped'
      <4>1. i = Len(spool) + 1 \/ i \in 1..Len(spool)
        BY <1>3, <2>1
      <4> QED
        BY <1>4, <2>1, <3>1, <3>2, <3>4, <4>1
    <3>5. Len(replay.lines) + Len(replay.tail) <= Len(spool')
      <4>1. \A l, m, n \in Nat : l + m <= n => l + m <= n + 1
        OBVIOUS
      <4> QED
        BY <1>3, <2>1, <3>1, <4>1
    <3> QED
      BY <3>3, <3>4, <3>5
  <2>6. Judged'
    BY <1>1, <1>2, <1>3, <2>1 DEF IInv, Judged
  <2>7. Placed'
    BY <1>1, <1>2, <1>3, <2>1 DEF IInv, Placed
  <2>8. StaleKnown' /\ SpooledNotLost'
    BY <1>1, <1>4, <2>1, SpoolAssumption DEF IInv, StaleKnown, SpooledNotLost
  <2> QED
    BY <2>2, <2>3, <2>4, <2>5, <2>6, <2>7, <2>8 DEF IInv
<1> QED
  BY <1>1, <1>5, <1>6

-----------------------------------------------------------------------------
(* The replay.                                                             *)

\* The line that is sent is one of the file, and was not refused before.
LEMMA LineSent ==
    ASSUME IInv, replay.pc = "post"
    PROVE  /\ Line \in Records /\ Line \in Range(spool) /\ Line \notin Range(replay.rejected)
           /\ replay.next \in 1..Len(replay.lines)
           /\ Len(replay.lines) \in Nat
<1>1. /\ replay.next \in 1..Len(replay.lines)
      /\ replay.lines \in Seq(Records) /\ spool \in Seq(Records)
  BY DEF IInv, TypeOK
<1>2. /\ Len(replay.lines) \in Nat /\ Len(spool) \in Nat
      /\ \A i \in 1..Len(replay.lines) : replay.lines[i] \in Records
      /\ \A i \in 1..Len(spool) : spool[i] \in Range(spool)
      /\ IsInjective(spool) => \A i, j \in 1..Len(spool) : spool[i] = spool[j] => i = j
  BY <1>1, SeqLines
<1>3. /\ Len(replay.lines) <= Len(spool)
      /\ \A i \in 1..Len(replay.lines) : replay.lines[i] = spool[i]
  BY DEF IInv, LinesRead, Reading
<1>4. Line \in Records /\ Line \in Range(spool)
  BY <1>1, <1>2, <1>3 DEF Line
<1>5. ASSUME Line \in Range(replay.rejected) PROVE FALSE
  <2>1. PICK i \in 1..Len(replay.lines) : i < replay.next /\ Line = replay.lines[i]
    BY <1>5 DEF IInv, Judged, Reading
  <2>2. spool[i] = spool[replay.next] /\ i \in 1..Len(spool) /\ replay.next \in 1..Len(spool)
    BY <1>1, <1>2, <1>3, <2>1 DEF Line
  <2>3. i = replay.next
    BY <1>2, <2>2 DEF IInv, Placed
  <2> QED
    BY <1>1, <2>1, <2>3
<1> QED
  BY <1>1, <1>2, <1>4, <1>5

\* Rows are only added, and acknowledgements of faults too: nothing that is
\* spooled is lost by it.
LEMMA StillNotLost ==
    ASSUME IInv, UNCHANGED <<spool, writer, overlapped>>,
           rows' \in [Records -> Nat], \A r \in Records : rows'[r] >= rows[r],
           refused \subseteq refused'
    PROVE  SpooledNotLost'
<1> SUFFICES ASSUME NEW r \in Accepted \ (overlapped' \union refused'), writer'[r] = "written"
             PROVE  r \in Range(spool') \/ rows'[r] > 0
  BY DEF SpooledNotLost
<1>1. r \in Accepted \ (overlapped \union refused) /\ writer[r] = "written" /\ r \in Records
  BY SpoolAssumption
<1>2. r \in Range(spool) \/ rows[r] > 0
  BY <1>1 DEF IInv, SpooledNotLost
<1>3. rows[r] \in Nat /\ rows'[r] \in Nat /\ rows'[r] >= rows[r]
  BY <1>1 DEF IInv, TypeOK
<1> QED
  BY <1>2, <1>3

\* A line is dealt with: it is in the ledger, or it was refused.
LEMMA LineDone ==
    ASSUME IInv, replay.pc = "post", NEW rejected,
           replay' = [replay EXCEPT !.next = @ + 1,
                         !.pc = IF replay.next = Len(replay.lines) THEN "tail" ELSE "post",
                         !.rejected = rejected],
           \/ rejected = replay.rejected
           \/ rejected = Append(replay.rejected, Line) /\ (Line \in Accepted => Line \in refused'),
           Line \in Accepted => rows'[Line] > 0 \/ Line \in refused',
           rows' \in [Records -> Nat], \A r \in Records : rows'[r] >= rows[r],
           refused \subseteq refused', refused' \subseteq Accepted,
           faults' \in 0..MaxFaults,
           UNCHANGED <<spool, writer, quarantine, overlapped>>
    PROVE  IInv'
<1>1. /\ Line \in Records /\ Line \in Range(spool) /\ Line \notin Range(replay.rejected)
      /\ replay.next \in 1..Len(replay.lines) /\ Len(replay.lines) \in Nat
  BY LineSent
<1>2. /\ rejected \in Seq(Records) /\ IsInjective(rejected)
      /\ \A x \in Range(rejected) : x \in Range(replay.rejected) \/ x = Line
      /\ \A x \in Range(rejected) : x \in Accepted => x \in refused'
  <2>1. replay.rejected \in Seq(Records) /\ IsInjective(replay.rejected)
        /\ \A x \in Range(replay.rejected) : x \in Accepted => x \in refused
    BY DEF IInv, TypeOK, Judged
  <2>2. CASE rejected = replay.rejected
    BY <2>1, <2>2
  <2>3. CASE /\ rejected = Append(replay.rejected, Line)
             /\ Line \in Accepted => Line \in refused'
    <3>1. /\ rejected \in Seq(Records) /\ IsInjective(rejected)
          /\ \A x : x \in Range(rejected) <=> x \in Range(replay.rejected) \/ x = Line
      BY <1>1, <2>1, <2>3, AppendLine
    <3> QED
      BY <2>1, <2>3, <3>1
  <2> QED
    BY <2>2, <2>3
<1> DEFINE pc == IF replay.next = Len(replay.lines) THEN "tail" ELSE "post"
<1>3. /\ pc \in {"post", "tail"}
      /\ replay' = [replay EXCEPT !.next = @ + 1, !.pc = pc, !.rejected = rejected]
  OBVIOUS
<1>4. /\ pc = "post" => replay.next + 1 \in 1..Len(replay.lines)
      /\ pc = "tail" => replay.next = Len(replay.lines)
      /\ replay.next + 1 <= Len(replay.lines) + 1
      /\ replay.next + 1 \in Nat \ {0}
  BY <1>1
<1> HIDE DEF pc
<1>5. /\ pc \in {"post", "tail"}
      /\ replay'.pc = pc /\ replay'.lines = replay.lines /\ replay'.next = replay.next + 1
      /\ replay'.rejected = rejected /\ replay'.remaining = replay.remaining
      /\ replay'.tail = replay.tail
      /\ replay' \in [pc : {"idle", "post", "tail", "replace", "quarantine"},
                      lines : Seq(Records), next : Nat \ {0}, rejected : Seq(Records),
                      remaining : Seq(Records), tail : Seq(Records)]
  BY <1>2, <1>4, <1>3 DEF IInv, TypeOK
<1>6. TypeOK'
  BY <1>5, <1>4 DEF IInv, TypeOK
<1>7. LinesRead'
  BY <1>5, <1>4 DEF IInv, LinesRead, Reading
<1>8. LinesSent'
  <2> SUFFICES ASSUME NEW i \in 1..Len(replay.lines), i < replay.next + 1,
                      replay.lines[i] \in Accepted
               PROVE  rows'[replay.lines[i]] > 0 \/ replay.lines[i] \in refused'
    BY <1>5 DEF LinesSent
  <2>1. CASE i = replay.next
    BY <2>1 DEF Line
  <2>2. CASE i < replay.next
    <3>1. rows[replay.lines[i]] > 0 \/ replay.lines[i] \in refused
      BY <2>2 DEF IInv, LinesSent, Reading
    <3>2. replay.lines[i] \in Records
      BY SpoolAssumption
    <3>3. /\ rows[replay.lines[i]] \in Nat /\ rows'[replay.lines[i]] \in Nat
          /\ rows'[replay.lines[i]] >= rows[replay.lines[i]]
      BY <3>2 DEF IInv, TypeOK
    <3> QED
      BY <3>1, <3>3
  <2> QED
    BY <1>1, <2>1, <2>2
<1>9. LinesLeft'
  <2>1. replay.remaining = <<>> /\ Len(replay.remaining) = 0
    BY DEF IInv, LinesLeft
  <2>2. pc = "tail" => Len(replay.lines) + 1 - (replay.next + 1) = 0
    BY <1>1, <1>4
  <2> QED
    BY <1>5, <2>1, <2>2 DEF LinesLeft
<1>10. TailRead'
  BY <1>5 DEF TailRead
<1>11. Judged'
  <2>1. ASSUME NEW x \in Range(rejected)
        PROVE  \E i \in 1..Len(replay.lines) : i < replay.next + 1 /\ x = replay.lines[i]
    <3>1. CASE x = Line
      <4>1. replay.next < replay.next + 1
        BY <1>1
      <4> QED
        BY <1>1, <3>1, <4>1 DEF Line
    <3>2. CASE x \in Range(replay.rejected)
      <4>1. PICK i \in 1..Len(replay.lines) : i < replay.next /\ x = replay.lines[i]
        BY <3>2 DEF IInv, Judged, Reading
      <4>2. i < replay.next + 1
        BY <1>1, <4>1
      <4> QED
        BY <4>1, <4>2
    <3> QED
      BY <1>2, <2>1, <3>1, <3>2
  <2> QED
    BY <1>2, <1>5, <2>1 DEF Judged
<1>12. Placed' /\ StaleKnown'
  BY DEF IInv, Placed, StaleKnown
<1>13. SpooledNotLost'
  BY StillNotLost
<1> QED
  BY <1>6, <1>7, <1>8, <1>9, <1>10, <1>11, <1>12, <1>13 DEF IInv

\* One row more for a record.
LEMMA RowAdded ==
    ASSUME IInv, NEW r \in Records, rows' = [rows EXCEPT ![r] = @ + 1]
    PROVE  /\ rows' \in [Records -> Nat]
           /\ \A x \in Records : rows'[x] >= rows[x]
           /\ rows'[r] > 0
  BY DEF IInv, TypeOK

LEMMA PostAcceptedStep ==
    ASSUME IInv, PostAccepted
    PROVE  IInv'
<1>1. /\ replay.pc = "post" /\ Line \in Accepted
      /\ rows' = [rows EXCEPT ![Line] = @ + 1]
      /\ replay' = [replay EXCEPT !.next = @ + 1,
                       !.pc = IF replay.next = Len(replay.lines) THEN "tail" ELSE "post"]
      /\ UNCHANGED <<spool, writer, quarantine, faults, overlapped, refused>>
  BY DEF PostAccepted, NextLine
<1>2. Line \in Records
  BY <1>1, LineSent
<1>3. /\ rows' \in [Records -> Nat] /\ \A x \in Records : rows'[x] >= rows[x]
      /\ rows'[Line] > 0
  BY <1>1, <1>2, RowAdded
<1>4. replay' = [replay EXCEPT !.next = @ + 1,
                    !.pc = IF replay.next = Len(replay.lines) THEN "tail" ELSE "post",
                    !.rejected = replay.rejected]
  BY <1>1 DEF IInv, TypeOK
<1>5. refused \subseteq refused' /\ refused' \subseteq Accepted /\ faults' \in 0..MaxFaults
  BY <1>1 DEF IInv, TypeOK
<1> QED
  BY <1>1, <1>3, <1>4, <1>5, LineDone

\* 400 or 409, deserved or not.
LEMMA PostRejectedStep ==
    ASSUME IInv, PostRejected \/ PostRefused
    PROVE  IInv'
<1>1. /\ replay.pc = "post"
      /\ Line \in Accepted => Line \in refused'
      /\ replay' = [NextLine EXCEPT !.rejected = Append(@, Line)]
      /\ UNCHANGED <<spool, writer, rows, quarantine, overlapped>>
      /\ refused \subseteq refused' /\ refused' \subseteq Accepted /\ faults' \in 0..MaxFaults
  <2>1. CASE PostRejected
    BY <2>1 DEF PostRejected, IInv, TypeOK
  <2>2. CASE PostRefused
    <3>1. /\ replay.pc = "post" /\ Line \in Accepted /\ faults < MaxFaults /\ faults' = faults + 1
          /\ refused' = refused \union {Line}
          /\ replay' = [NextLine EXCEPT !.rejected = Append(@, Line)]
          /\ UNCHANGED <<spool, writer, rows, quarantine, overlapped>>
      BY <2>2 DEF PostRefused
    <3>2. faults' \in 0..MaxFaults
      BY <3>1, SpoolAssumption DEF IInv, TypeOK
    <3>3. refused' \subseteq Accepted
      BY <3>1 DEF IInv, TypeOK
    <3> QED
      BY <3>1, <3>2, <3>3
  <2> QED
    BY <2>1, <2>2
<1>2. replay' = [replay EXCEPT !.next = @ + 1,
                    !.pc = IF replay.next = Len(replay.lines) THEN "tail" ELSE "post",
                    !.rejected = Append(replay.rejected, Line)]
  BY <1>1 DEF NextLine, IInv, TypeOK
<1>3. rows' \in [Records -> Nat] /\ \A x \in Records : rows'[x] >= rows[x]
  BY <1>1 DEF IInv, TypeOK
<1> QED
  BY <1>1, <1>2, <1>3, LineDone

\* The ledger does not answer: this line and those after it remain.
LEMMA PostFailsStep ==
    ASSUME IInv, PostFails
    PROVE  IInv'
<1> DEFINE remaining == SubSeq(replay.lines, replay.next, Len(replay.lines))
<1>1. /\ replay.pc = "post"
      /\ faults' \in 0..MaxFaults
      /\ rows' = rows \/ rows' = [rows EXCEPT ![Line] = @ + 1]
      /\ replay' = [replay EXCEPT !.pc = "tail", !.remaining = remaining]
      /\ UNCHANGED <<spool, writer, quarantine, overlapped, refused>>
  BY SpoolAssumption DEF PostFails, IInv, TypeOK
<1>2. /\ Line \in Records
      /\ replay.next \in 1..Len(replay.lines) /\ Len(replay.lines) \in Nat
      /\ replay.lines \in Seq(Records)
  BY <1>1, LineSent DEF IInv, TypeOK
<1>3. rows' \in [Records -> Nat] /\ \A x \in Records : rows'[x] >= rows[x]
  <2>1. CASE rows' = rows
    BY <2>1 DEF IInv, TypeOK
  <2>2. CASE rows' = [rows EXCEPT ![Line] = @ + 1]
    BY <1>2, <2>2, RowAdded
  <2> QED
    BY <1>1, <2>1, <2>2
<1>4. /\ remaining \in Seq(Records)
      /\ Len(remaining) = Len(replay.lines) + 1 - replay.next
      /\ \A i \in 1..Len(remaining) : remaining[i] = replay.lines[replay.next - 1 + i]
  <2>1. replay.next \in 1..Len(replay.lines) + 1
    BY <1>2
  <2> QED
    BY <1>2, <2>1, RestOfLines
<1> HIDE DEF remaining
<1>5. /\ replay'.pc = "tail" /\ replay'.lines = replay.lines /\ replay'.next = replay.next
      /\ replay'.rejected = replay.rejected /\ replay'.remaining = remaining
      /\ replay'.tail = replay.tail
      /\ replay' \in [pc : {"idle", "post", "tail", "replace", "quarantine"},
                      lines : Seq(Records), next : Nat \ {0}, rejected : Seq(Records),
                      remaining : Seq(Records), tail : Seq(Records)]
  BY <1>1, <1>4 DEF IInv, TypeOK
<1>6. TypeOK'
  BY <1>1, <1>3, <1>5 DEF IInv, TypeOK
<1>7. LinesRead'
  BY <1>1, <1>5 DEF IInv, LinesRead, Reading
<1>8. LinesSent'
  <2> SUFFICES ASSUME NEW i \in 1..Len(replay.lines), i < replay.next,
                      replay.lines[i] \in Accepted
               PROVE  rows'[replay.lines[i]] > 0 \/ replay.lines[i] \in refused
    BY <1>1, <1>5 DEF LinesSent
  <2>1. rows[replay.lines[i]] > 0 \/ replay.lines[i] \in refused
    BY <1>1 DEF IInv, LinesSent, Reading
  <2>2. replay.lines[i] \in Records
    BY SpoolAssumption
  <2>3. /\ rows[replay.lines[i]] \in Nat /\ rows'[replay.lines[i]] \in Nat
        /\ rows'[replay.lines[i]] >= rows[replay.lines[i]]
    BY <1>3, <2>2 DEF IInv, TypeOK
  <2> QED
    BY <2>1, <2>3
<1>9. LinesLeft'
  <2>1. /\ Len(replay.lines) <= Len(spool)
        /\ \A i \in 1..Len(replay.lines) : replay.lines[i] = spool[i]
    BY <1>1 DEF IInv, LinesRead, Reading
  <2>2. ASSUME NEW i \in 1..Len(remaining)
        PROVE  remaining[i] = spool[replay.next - 1 + i]
    <3>1. replay.next - 1 + i \in 1..Len(replay.lines)
      <4>1. \A l, m \in Nat : \A k \in 1..m : \A j \in 1..l : l = m + 1 - k => k - 1 + j \in 1..m
        OBVIOUS
      <4>2. Len(remaining) \in Nat
        BY <1>4, SeqLines
      <4> QED
        BY <1>2, <1>4, <4>1, <4>2
    <3> QED
      BY <1>4, <2>1, <3>1
  <2> QED
    BY <1>1, <1>4, <1>5, <2>2 DEF LinesLeft
<1>10. TailRead' /\ Placed' /\ StaleKnown'
  BY <1>1, <1>5 DEF IInv, TailRead, Placed, StaleKnown
<1>11. Judged'
  BY <1>1, <1>5 DEF IInv, Judged, Reading
<1>12. SpooledNotLost'
  BY <1>1, <1>3, StillNotLost
<1> QED
  BY <1>6, <1>7, <1>8, <1>9, <1>10, <1>11, <1>12 DEF IInv

\* A file without lines.
LEMMA EmptyFile ==
    /\ <<>> \in Seq(Records) /\ Len(<<>>) = 0
    /\ Range(<<>>) = {} /\ IsInjective(<<>>)
  BY DEF Range, IsInjective

\* The replay starts with the whole file.
LEMMA ReadSpoolStep ==
    ASSUME IInv, ReadSpool
    PROVE  IInv'
<1>1. /\ spool # <<>> /\ spool \in Seq(Records)
      /\ replay' = [pc |-> "post", lines |-> spool, next |-> 1, rejected |-> <<>>,
                    remaining |-> <<>>, tail |-> <<>>]
      /\ UNCHANGED <<spool, writer, rows, quarantine, faults, overlapped, refused>>
  BY DEF ReadSpool, Idle, IInv, TypeOK
<1>2. Len(spool) \in Nat /\ 1 \in 1..Len(spool)
  <2>1. Len(spool) \in Nat /\ Len(spool) # 0
    BY <1>1, EmptySeq, SeqLines
  <2> QED
    BY <2>1
<1>3. TypeOK'
  BY <1>1, <1>2, EmptyFile DEF IInv, TypeOK
<1>4. LinesRead'
  BY <1>1, <1>2 DEF LinesRead
<1>5. LinesSent'
  <2>1. \A i \in 1..Len(spool) : ~(i < 1)
    BY <1>2
  <2> QED
    BY <1>1, <2>1 DEF LinesSent
<1>6. LinesLeft' /\ TailRead'
  BY <1>1 DEF LinesLeft, TailRead
<1>7. Judged'
  BY <1>1, EmptyFile DEF Judged
<1>8. Placed' /\ StaleKnown' /\ SpooledNotLost'
  BY <1>1 DEF IInv, Placed, StaleKnown, SpooledNotLost
<1> QED
  BY <1>3, <1>4, <1>5, <1>6, <1>7, <1>8 DEF IInv

\* The tail is all that was appended since the replay read the file.
LEMMA ReadTailStep ==
    ASSUME IInv, ReadTail
    PROVE  IInv'
<1> DEFINE tail == SubSeq(spool, Len(replay.lines) + 1, Len(spool))
<1>1. /\ replay.pc = "tail"
      /\ replay' = [replay EXCEPT !.pc = "replace", !.tail = tail]
      /\ UNCHANGED <<spool, writer, rows, quarantine, faults, overlapped, refused>>
  BY DEF ReadTail
<1>2. /\ Len(replay.lines) \in Nat /\ Len(spool) \in Nat /\ spool \in Seq(Records)
      /\ Len(replay.lines) <= Len(spool)
  BY <1>1, SeqLines DEF IInv, TypeOK, LinesRead, Reading
<1>3. /\ tail \in Seq(Records)
      /\ Len(replay.lines) + Len(tail) = Len(spool)
      /\ \A i \in 1..Len(tail) : tail[i] = spool[Len(replay.lines) + i]
  <2>1. PICK l \in Nat, m \in Nat : l = Len(replay.lines) /\ m = Len(replay.lines) + 1
    BY <1>2
  <2>2. /\ SubSeq(spool, m, Len(spool)) \in Seq(Records)
        /\ l + Len(SubSeq(spool, m, Len(spool))) = Len(spool)
        /\ \A i \in 1..Len(SubSeq(spool, m, Len(spool))) :
              SubSeq(spool, m, Len(spool))[i] = spool[l + i]
    <3>1. m \in 1..Len(spool) + 1
      BY <1>2, <2>1
    <3>2. /\ SubSeq(spool, m, Len(spool)) \in Seq(Records)
          /\ Len(SubSeq(spool, m, Len(spool))) = Len(spool) + 1 - m
          /\ \A i \in 1..Len(SubSeq(spool, m, Len(spool))) :
                SubSeq(spool, m, Len(spool))[i] = spool[m - 1 + i]
      BY <1>2, <3>1, RestOfLines
    <3>3. m = l + 1 /\ \A i \in Int : m - 1 + i = l + i
      BY <2>1
    <3> QED
      BY <1>2, <3>2, <3>3
  <2> QED
    BY <2>1, <2>2
<1> HIDE DEF tail
<1>4. /\ replay'.pc = "replace" /\ replay'.lines = replay.lines /\ replay'.next = replay.next
      /\ replay'.rejected = replay.rejected /\ replay'.remaining = replay.remaining
      /\ replay'.tail = tail
      /\ replay' \in [pc : {"idle", "post", "tail", "replace", "quarantine"},
                      lines : Seq(Records), next : Nat \ {0}, rejected : Seq(Records),
                      remaining : Seq(Records), tail : Seq(Records)]
  BY <1>1, <1>3 DEF IInv, TypeOK
<1>5. TypeOK'
  BY <1>1, <1>4 DEF IInv, TypeOK
<1>6. LinesRead' /\ LinesSent' /\ LinesLeft' /\ Judged'
  BY <1>1, <1>4 DEF IInv, LinesRead, LinesSent, LinesLeft, Judged, Reading
<1>7. TailRead'
  <2>1. \A i \in 1..Len(spool) : ~(i > Len(replay.lines) + Len(tail))
    BY <1>2, <1>3
  <2>2. Len(replay.lines) + Len(tail) <= Len(spool)
    BY <1>2, <1>3
  <2> QED
    BY <1>1, <1>3, <1>4, <2>1, <2>2 DEF TailRead
<1>8. Placed' /\ StaleKnown' /\ SpooledNotLost'
  BY <1>1 DEF IInv, Placed, StaleKnown, SpooledNotLost
<1> QED
  BY <1>5, <1>6, <1>7, <1>8 DEF IInv

\* What takes the file's place is the file from the first line not dealt with
\* up to the last one the replay read.
LEMMA RewrittenLines ==
    ASSUME IInv, replay.pc = "replace"
    PROVE  LET new == replay.remaining \o replay.tail
           IN  /\ new \in Seq(Records)
               /\ replay.next - 1 + Len(new) = Len(replay.lines) + Len(replay.tail)
               /\ \A i \in 1..Len(new) :
                     /\ replay.next - 1 + i \in 1..Len(spool)
                     /\ new[i] = spool[replay.next - 1 + i]
<1>1. /\ replay.remaining \in Seq(Records) /\ replay.tail \in Seq(Records)
      /\ spool \in Seq(Records) /\ replay.next \in Nat \ {0}
      /\ Len(replay.lines) \in Nat
  BY SeqLines DEF IInv, TypeOK
<1>2. /\ Len(replay.remaining) = Len(replay.lines) + 1 - replay.next
      /\ \A i \in 1..Len(replay.remaining) :
            replay.remaining[i] = spool[replay.next - 1 + i]
  BY DEF IInv, LinesLeft
<1>3. /\ Len(replay.lines) + Len(replay.tail) <= Len(spool)
      /\ \A i \in 1..Len(replay.tail) : replay.tail[i] = spool[Len(replay.lines) + i]
  BY DEF IInv, TailRead
<1> QED
  <2>1. PICK rest \in Seq(Records), t \in Seq(Records), l \in Nat, n \in Nat \ {0} :
           rest = replay.remaining /\ t = replay.tail /\ l = Len(replay.lines) /\ n = replay.next
    BY <1>1
  <2>2. /\ Len(rest) = l + 1 - n /\ \A i \in 1..Len(rest) : rest[i] = spool[n - 1 + i]
        /\ l + Len(t) <= Len(spool) /\ \A i \in 1..Len(t) : t[i] = spool[l + i]
    BY <1>2, <1>3, <2>1
  <2>3. /\ rest \o t \in Seq(Records)
        /\ n - 1 + Len(rest \o t) = l + Len(t)
        /\ \A i \in 1..Len(rest \o t) :
              n - 1 + i \in 1..Len(spool) /\ (rest \o t)[i] = spool[n - 1 + i]
    <3> DEFINE u == rest \o t
    <3>1. /\ u \in Seq(Records) /\ Len(u) = Len(rest) + Len(t)
          /\ \A i \in 1..Len(rest) + Len(t) :
                u[i] = IF i <= Len(rest) THEN rest[i] ELSE t[i - Len(rest)]
      BY ConcatProperties
    <3> HIDE DEF u
    <3>2. Len(rest) \in Nat /\ Len(t) \in Nat /\ Len(spool) \in Nat
      BY <1>1, SeqLines
    <3>3. n - 1 + Len(u) = l + Len(t)
      BY <2>2, <3>1, <3>2
    <3>4. ASSUME NEW i \in 1..Len(u)
          PROVE  n - 1 + i \in 1..Len(spool) /\ u[i] = spool[n - 1 + i]
      <4>1. i \in 1..Len(rest) + Len(t) /\ n - 1 + i \in 1..Len(spool)
        BY <2>2, <3>1, <3>2
      <4>2. CASE i <= Len(rest)
        <5>1. i \in 1..Len(rest)
          BY <3>2, <4>1, <4>2
        <5> QED
          BY <2>2, <3>1, <4>1, <4>2, <5>1
      <4>3. CASE i > Len(rest)
        <5>1. PICK j \in 1..Len(t) : j = i - Len(rest) /\ l + j = n - 1 + i
          BY <2>2, <3>2, <4>1, <4>3
        <5>2. ~(i <= Len(rest))
          BY <3>2, <4>3
        <5>3. u[i] = t[j]
          BY <3>1, <4>1, <5>1, <5>2
        <5> QED
          BY <2>2, <4>1, <5>1, <5>3
      <4> QED
        BY <3>2, <4>2, <4>3
    <3> QED
      BY <3>1, <3>3, <3>4 DEF u
  <2> QED
    BY <2>1, <2>3

\* It repeats no line, since the file does not.
LEMMA RewrittenInjective ==
    ASSUME IInv, replay.pc = "replace"
    PROVE  IsInjective(replay.remaining \o replay.tail)
<1> DEFINE new == replay.remaining \o replay.tail
<1>1. /\ new \in Seq(Records)
      /\ \A i \in 1..Len(new) : /\ replay.next - 1 + i \in 1..Len(spool)
                                /\ new[i] = spool[replay.next - 1 + i]
  BY RewrittenLines
<1> HIDE DEF new
<1>2. /\ Len(new) \in Nat
      /\ (\A i, j \in 1..Len(new) : new[i] = new[j] => i = j) => IsInjective(new)
  BY <1>1, SeqLines
<1>3. /\ replay.next \in Nat
      /\ \A i, j \in 1..Len(spool) : spool[i] = spool[j] => i = j
  BY SeqLines DEF IInv, TypeOK, Placed
<1>4. ASSUME NEW i \in 1..Len(new), NEW j \in 1..Len(new), new[i] = new[j]
      PROVE  i = j
  <2>1. PICK a \in 1..Len(spool) : a = replay.next - 1 + i /\ new[i] = spool[a]
    BY <1>1
  <2>2. PICK b \in 1..Len(spool) : b = replay.next - 1 + j /\ new[j] = spool[b]
    BY <1>1
  <2>3. a = b
    BY <1>3, <1>4, <2>1, <2>2
  <2> QED
    BY <1>2, <1>3, <2>1, <2>2, <2>3
<1> QED
  BY <1>2, <1>4 DEF new

\* The rename: what was sent leaves the file, what was not stays, and an
\* append under way has lost its file.
LEMMA ReplaceSpoolStep ==
    ASSUME IInv, ReplaceSpool
    PROVE  IInv'
<1>1. /\ replay.pc = "replace"
      /\ spool' = replay.remaining \o replay.tail
      /\ writer' = [r \in Records |-> IF writer[r] = "open" THEN "stale" ELSE writer[r]]
      /\ overlapped' = overlapped \union {r \in Records : writer[r] = "open"}
      /\ replay' = [replay EXCEPT !.pc = "quarantine"]
      /\ UNCHANGED <<rows, quarantine, faults, refused>>
  BY DEF ReplaceSpool
<1>2. /\ spool \in Seq(Records) /\ replay.next \in Nat \ {0}
      /\ Len(spool) \in Nat /\ Len(replay.lines) \in Nat /\ Len(replay.tail) \in Nat
      /\ \A i \in 1..Len(spool) : spool[i] \in Range(spool)
      /\ \A x \in Range(spool) : \E i \in 1..Len(spool) : x = spool[i]
      /\ \A i, j \in 1..Len(spool) : spool[i] = spool[j] => i = j
      /\ Range(spool) \subseteq Records /\ Range(quarantine) \subseteq Records
  BY SeqLines DEF IInv, TypeOK, Placed
<1>3. /\ spool' \in Seq(Records)
      /\ replay.next - 1 + Len(spool') = Len(replay.lines) + Len(replay.tail)
      /\ \A i \in 1..Len(spool') : /\ replay.next - 1 + i \in 1..Len(spool)
                                   /\ spool'[i] = spool[replay.next - 1 + i]
  BY <1>1, RewrittenLines
<1>4. /\ Len(spool') \in Nat
      /\ \A i \in 1..Len(spool') : spool'[i] \in Range(spool')
      /\ \A x \in Range(spool') : \E i \in 1..Len(spool') : x = spool'[i]
  BY <1>3, SeqLines
<1>5. ASSUME NEW x \in Range(spool') PROVE x \in Range(spool)
  <2>1. PICK i \in 1..Len(spool') : x = spool'[i]
    BY <1>4
  <2>2. PICK a \in 1..Len(spool) : spool'[i] = spool[a]
    BY <1>3
  <2> QED
    BY <1>2, <2>1, <2>2
<1>6. IsInjective(spool')
  BY <1>1, RewrittenInjective
<1>7. /\ replay'.pc = "quarantine" /\ replay'.rejected = replay.rejected
      /\ replay'.remaining = replay.remaining /\ replay'.tail = replay.tail
      /\ replay' \in [pc : {"idle", "post", "tail", "replace", "quarantine"},
                      lines : Seq(Records), next : Nat \ {0}, rejected : Seq(Records),
                      remaining : Seq(Records), tail : Seq(Records)]
  BY <1>1 DEF IInv, TypeOK
<1>8. /\ writer' \in [Records -> {"training", "open", "stale", "written", "failed"}]
      /\ \A x \in Records : writer[x] = "written" <=> writer'[x] = "written"
      /\ \A x \in Records : writer'[x] = "stale" => writer[x] \in {"open", "stale"}
  BY <1>1 DEF IInv, TypeOK
<1>9. TypeOK'
  BY <1>1, <1>3, <1>7, <1>8 DEF IInv, TypeOK
<1>10. LinesRead' /\ LinesSent' /\ LinesLeft' /\ TailRead'
  BY <1>7 DEF LinesRead, LinesSent, LinesLeft, TailRead, Reading
<1>11. Judged'
  <2>1. ASSUME NEW x \in Range(replay.rejected)
        PROVE  writer'[x] = "written" /\ x \notin Range(spool') /\ x \notin Range(quarantine)
    <3>1. PICK i \in 1..Len(replay.lines) : i < replay.next /\ x = replay.lines[i]
      BY <1>1, <2>1 DEF IInv, Judged, Reading
    <3>2. i \in 1..Len(spool) /\ x = spool[i]
      BY <1>1, <1>2, <3>1 DEF IInv, LinesRead, Reading
    <3>3. x \in Range(spool) /\ x \in Records
      BY <1>2, <3>2
    <3>4. writer'[x] = "written" /\ x \notin Range(quarantine)
      BY <1>8, <3>3 DEF IInv, Placed
    <3>5. ASSUME NEW j \in 1..Len(spool'), x = spool'[j] PROVE FALSE
      <4>1. PICK a \in 1..Len(spool) : a = replay.next - 1 + j /\ spool'[j] = spool[a]
        BY <1>3
      <4>2. i = a
        BY <1>2, <3>2, <3>5, <4>1
      <4>3. replay.next \in Nat /\ Len(spool') \in Nat
        BY <1>2, <1>4
      <4> QED
        BY <3>1, <4>1, <4>2, <4>3
    <3> QED
      BY <1>4, <3>4, <3>5
  <2>2. IsInjective(replay.remaining \o replay.tail)
    BY <1>1, <1>6
  <2> QED
    BY <1>1, <1>7, <2>1, <2>2 DEF IInv, Judged, Reading
<1>12. Placed'
  BY <1>1, <1>2, <1>5, <1>6, <1>8 DEF IInv, Placed
<1>13. StaleKnown'
  BY <1>1, <1>8 DEF IInv, StaleKnown
<1>14. SpooledNotLost'
  <2> SUFFICES ASSUME NEW r \in Accepted \ (overlapped' \union refused), writer'[r] = "written"
               PROVE  r \in Range(spool') \/ rows[r] > 0
    BY <1>1 DEF SpooledNotLost
  <2>1. r \in Accepted \ (overlapped \union refused) /\ writer[r] = "written"
    BY <1>1, <1>8, SpoolAssumption
  <2>2. r \in Range(spool) \/ rows[r] > 0
    BY <2>1 DEF IInv, SpooledNotLost
  <2>3. ASSUME NEW k \in 1..Len(spool), r = spool[k] PROVE r \in Range(spool') \/ rows[r] > 0
    <3>1. /\ replay.next <= Len(replay.lines) + 1
          /\ \A i \in 1..Len(replay.lines) : replay.lines[i] = spool[i]
      BY <1>1 DEF IInv, LinesRead, Reading
    <3>2. CASE k < replay.next
      <4>1. k \in 1..Len(replay.lines) /\ replay.lines[k] = r
        BY <1>2, <2>3, <3>1, <3>2
      <4> QED
        BY <1>1, <2>1, <3>2, <4>1 DEF IInv, LinesSent, Reading
    <3>3. CASE k > Len(replay.lines) + Len(replay.tail)
      BY <1>1, <2>1, <2>3, <3>3 DEF IInv, TailRead
    <3>4. CASE k >= replay.next /\ k <= Len(replay.lines) + Len(replay.tail)
      <4>1. \A n \in Nat \ {0} : \A l, t, s \in Nat :
               n - 1 + s = l + t /\ k >= n /\ k <= l + t =>
                  k - n + 1 \in 1..s /\ n - 1 + (k - n + 1) = k
        BY <1>2
      <4>2. /\ k - replay.next + 1 \in 1..Len(spool')
            /\ replay.next - 1 + (k - replay.next + 1) = k
        BY <1>2, <1>3, <1>4, <3>4, <4>1
      <4>3. spool'[k - replay.next + 1] = r
        BY <1>3, <2>3, <4>2
      <4> QED
        BY <1>4, <4>2, <4>3
    <3>5. \A l, u \in Nat : k < l \/ k > u \/ (k >= l /\ k <= u)
      OBVIOUS
    <3>6. replay.next \in Nat /\ Len(replay.lines) + Len(replay.tail) \in Nat
      <4>1. \A l, u \in Nat : l + u \in Nat
        OBVIOUS
      <4> QED
        BY <1>2, <4>1, Zenon
    <3> QED
      BY <3>2, <3>3, <3>4, <3>5, <3>6
  <2> QED
    BY <1>2, <2>2, <2>3
<1> QED
  BY <1>9, <1>10, <1>11, <1>12, <1>13, <1>14 DEF IInv

\* The call is over, or was cut short: its locals are gone.
LEMMA ReplayEnds ==
    ASSUME IInv, replay' = Idle, faults' \in 0..MaxFaults,
           UNCHANGED <<spool, writer, rows, overlapped, refused>>,
           quarantine' \in Seq(Records), IsInjective(quarantine'),
           \A x \in Range(quarantine') :
               /\ writer[x] = "written" /\ x \notin Range(spool)
               /\ x \in Accepted => x \in refused
    PROVE  IInv'
<1>1. /\ replay'.pc = "idle" /\ replay'.rejected = <<>>
      /\ replay' \in [pc : {"idle", "post", "tail", "replace", "quarantine"},
                      lines : Seq(Records), next : Nat \ {0}, rejected : Seq(Records),
                      remaining : Seq(Records), tail : Seq(Records)]
  BY EmptyFile DEF Idle
<1>2. TypeOK'
  BY <1>1 DEF IInv, TypeOK
<1>3. LinesRead' /\ LinesSent' /\ LinesLeft' /\ TailRead'
  BY <1>1 DEF LinesRead, LinesSent, LinesLeft, TailRead, Reading
<1>4. Judged'
  BY <1>1, EmptyFile DEF Judged, Reading, Idle
<1>5. Placed'
  BY DEF IInv, Placed
<1>6. StaleKnown' /\ SpooledNotLost'
  BY DEF IInv, StaleKnown, SpooledNotLost
<1> QED
  BY <1>2, <1>3, <1>4, <1>5, <1>6 DEF IInv

LEMMA ReplayCutShort ==
    ASSUME IInv, ReplaceFails \/ Crash
    PROVE  IInv'
<1>1. /\ replay' = Idle /\ faults < MaxFaults /\ faults' = faults + 1
      /\ UNCHANGED <<spool, writer, rows, quarantine, overlapped, refused>>
  BY DEF ReplaceFails, Crash
<1>2. faults' \in 0..MaxFaults
  BY <1>1, SpoolAssumption DEF IInv, TypeOK
<1>3. /\ quarantine \in Seq(Records) /\ IsInjective(quarantine)
      /\ \A x \in Range(quarantine) :
            /\ writer[x] = "written" /\ x \notin Range(spool)
            /\ x \in Accepted => x \in refused
  BY DEF IInv, TypeOK, Placed
<1> QED
  BY <1>1, <1>2, <1>3, ReplayEnds

\* What was refused is moved: it left the spool, and it was not here yet.
LEMMA QuarantineStep ==
    ASSUME IInv, QuarantineAndReturn
    PROVE  IInv'
<1>1. /\ replay.pc = "quarantine" /\ quarantine' = quarantine \o replay.rejected
      /\ replay' = Idle
      /\ UNCHANGED <<spool, writer, rows, faults, overlapped, refused>>
  BY DEF QuarantineAndReturn
<1>2. /\ replay.rejected \in Seq(Records) /\ quarantine \in Seq(Records)
      /\ IsInjective(quarantine) /\ IsInjective(replay.rejected)
      /\ \A x \in Range(quarantine) :
            /\ writer[x] = "written" /\ x \notin Range(spool)
            /\ x \in Accepted => x \in refused
      /\ \A x \in Range(replay.rejected) :
            /\ writer[x] = "written" /\ x \notin Range(spool) /\ x \notin Range(quarantine)
            /\ x \in Accepted => x \in refused
  BY <1>1 DEF IInv, TypeOK, Placed, Judged
<1>3. /\ quarantine' \in Seq(Records) /\ IsInjective(quarantine')
      /\ \A x : x \in Range(quarantine') <=> x \in Range(quarantine) \/ x \in Range(replay.rejected)
  <2>1. Range(quarantine) \intersect Range(replay.rejected) = {}
    BY <1>2
  <2> QED
    BY <1>1, <1>2, <2>1, ConcatLines
<1>4. faults' \in 0..MaxFaults
  BY <1>1 DEF IInv, TypeOK
<1> QED
  BY <1>1, <1>2, <1>3, <1>4, ReplayEnds

-----------------------------------------------------------------------------
(* The theorems.                                                           *)

LEMMA InitIInv == Init => IInv
<1> SUFFICES ASSUME Init PROVE IInv
  OBVIOUS
<1>1. /\ replay.pc = "idle" /\ replay.rejected = <<>> /\ replay = Idle
      /\ replay \in [pc : {"idle", "post", "tail", "replace", "quarantine"},
                     lines : Seq(Records), next : Nat \ {0}, rejected : Seq(Records),
                     remaining : Seq(Records), tail : Seq(Records)]
  BY EmptyFile DEF Init, Idle
<1>2. TypeOK
  BY <1>1, SpoolAssumption, EmptyFile DEF Init, TypeOK
<1>3. LinesRead /\ LinesSent /\ LinesLeft /\ TailRead
  BY <1>1 DEF LinesRead, LinesSent, LinesLeft, TailRead, Reading
<1>4. Judged /\ Placed
  BY <1>1, EmptyFile DEF Init, Judged, Placed, Reading
<1>5. StaleKnown /\ SpooledNotLost
  BY SpoolAssumption DEF Init, StaleKnown, SpooledNotLost
<1> QED
  BY <1>2, <1>3, <1>4, <1>5 DEF IInv

LEMMA NextIInv == IInv /\ [Next]_vars => IInv'
<1> SUFFICES ASSUME IInv, [Next]_vars PROVE IInv'
  OBVIOUS
<1>1. ASSUME NEW r \in Records, OpenSpool(r) \/ WriteLine(r) \/ SpoolFails(r) PROVE IInv'
  BY <1>1, WriterStep, WriteStep
<1>2. CASE Replaying
  BY <1>2, ReadSpoolStep, PostAcceptedStep, PostRejectedStep, ReadTailStep, ReplaceSpoolStep,
     QuarantineStep DEF Replaying
<1>3. CASE PostRefused
  BY <1>3, PostRejectedStep
<1>4. CASE PostFails
  BY <1>4, PostFailsStep
<1>5. CASE ReplaceFails \/ Crash
  BY <1>5, ReplayCutShort
<1>6. CASE UNCHANGED vars
  <2>1. (TypeOK' <=> TypeOK) /\ (LinesRead' <=> LinesRead) /\ (LinesSent' <=> LinesSent)
    BY <1>6 DEF vars, TypeOK, LinesRead, LinesSent
  <2>2. (LinesLeft' <=> LinesLeft) /\ (TailRead' <=> TailRead)
    BY <1>6 DEF vars, LinesLeft, TailRead
  <2>3. Judged' <=> Judged
    BY <1>6 DEF vars, Judged
  <2>4. Placed' <=> Placed
    BY <1>6 DEF vars, Placed
  <2>5. (StaleKnown' <=> StaleKnown) /\ (SpooledNotLost' <=> SpooledNotLost)
    BY <1>6 DEF vars, StaleKnown, SpooledNotLost
  <2> QED
    BY <2>1, <2>2, <2>3, <2>4, <2>5 DEF IInv
<1> QED
  BY <1>1, <1>2, <1>3, <1>4, <1>5, <1>6 DEF Next

\* The inductive invariant holds of every reachable state of the spool, the
\* appends of Run._spool and every system call of replay_spool interleaved.
THEOREM SpoolInvariant == Spec => []IInv
<1>1. Init => IInv
  BY InitIInv
<1>2. IInv /\ [Next]_vars => IInv'
  BY NextIInv
<1> QED
  BY <1>1, <1>2, PTL DEF Spec

\* The file, the writers, the ledger and replay_spool's locals have their types;
\* in particular the loop never sends a line beyond the last.
THEOREM SpoolTypeCorrect == Spec => []TypeOK
<1>1. IInv => TypeOK
  BY DEF IInv
<1> QED
  BY <1>1, SpoolInvariant, PTL

\* A record Run._spool has written is in the file or in the ledger, whatever
\* crash, lost answer or failed rewrite replay_spool meets.
THEOREM SpooledIsKept == Spec => []SpooledNotLost
<1>1. IInv => SpooledNotLost
  BY DEF IInv
<1> QED
  BY <1>1, SpoolInvariant, PTL

\* No rewrite duplicates a line, and a refused one is moved to the quarantine,
\* once, and only when the rewritten spool no longer has it.
THEOREM LinesOnce == Spec => []NoLineTwice
<1>1. IInv => NoLineTwice
  <2> SUFFICES ASSUME IInv PROVE NoLineTwice
    OBVIOUS
  <2>1. /\ IsInjective(spool) /\ IsInjective(quarantine)
        /\ Range(quarantine) \intersect Range(spool) = {}
        /\ Range(quarantine) \intersect Accepted \subseteq refused
    BY DEF IInv, Placed
  <2>2. CASE replay.pc = "replace"
    <3>1. IsInjective(replay.remaining \o replay.tail)
      BY <2>2, RewrittenInjective
    <3> QED
      BY <2>1, <3>1 DEF NoLineTwice
  <2>3. CASE replay.pc # "replace"
    BY <2>1, <2>3 DEF NoLineTwice, IInv, Judged
  <2> QED
    BY <2>2, <2>3
<1> QED
  BY <1>1, SpoolInvariant, PTL

=============================================================================
