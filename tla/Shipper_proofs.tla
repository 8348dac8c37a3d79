---------------------------- MODULE Shipper_proofs ----------------------------
(***************************************************************************)
(* The shipper's safety, for any number of lines, crashes and failed       *)
(* writes of the offset.                                                   *)
(*                                                                         *)
(* Until the export is cut, it is a sequence of numbered pairs of bytes    *)
(* and the shipper's places lie between pairs.  Every line before a place  *)
(* it keeps - the one in the offset file, the highest it ever saved, the   *)
(* one it reads at - was delivered, and what was delivered is a line of    *)
(* the export.  A line's number tells it from all others, so that one that *)
(* is still to be written was not delivered by accident.                   *)
(***************************************************************************)
EXTENDS Shipper, SequenceTheorems, TLAPS

\* Every second byte is a newline.
Paired(f) == f \in Seq(Byte) /\ \A i \in 1..Len(f) : f[i].nl <=> i % 2 = 0

\* A line's first byte has the line's number.
Numbered(f) == \A i \in 1..Len(f) : i % 2 = 1 => 2 * f[i].line = i + 1

\* The places where a complete line starts that ends at n or before, the line there,
\* and the ones to deliver.
Lines(f, n) == {p \in 0..Len(f) : p % 2 = 0 /\ p + 2 <= Len(f) /\ p + 2 <= n}
Pair(f, p) == <<f[p + 1], f[p + 2]>>
ToDeliver(f, n) == {p \in Lines(f, n) : ~Kept(Pair(f, p))}

\* A place between two lines.
Between(n) == n \in Nat /\ n % 2 = 0 /\ n <= Len(file)
Delivered(n) == \A p \in ToDeliver(file, n) : Pair(file, p) \in remote

\* The places the shipper has.
Shape ==
  /\ Paired(file)
  /\ pos % 2 = 0 /\ acked % 2 = 0 /\ (offset # Empty => offset % 2 = 0)

\* What was delivered is a line of the export, and it was delivered in order.
Sent == \A line \in remote : \E p \in ToDeliver(file, Len(file)) : line = Pair(file, p)
InOrder ==
  \A p, q \in ToDeliver(file, Len(file)) :
    p < q /\ Pair(file, q) \in remote => Pair(file, p) \in remote

\* While the export is whole.
Tailing ==
  /\ Numbered(file)
  /\ 2 * lines \in {Len(file), Len(file) + 1}
  /\ Between(acked) /\ Delivered(acked)
  /\ Between(_read_offset) /\ Delivered(_read_offset)
  /\ pc \in {"checked", "reading", "save", "saving"} => Between(pos) /\ Delivered(pos)
  /\ pc # "stopped"
  /\ Sent /\ InOrder

IInv == TypeOK /\ Shape /\ (~cut => Tailing)
-----------------------------------------------------------------------------
(* A file of pairs *)

\* readline at a place between two lines: the two bytes after it, if both are there.
LEMMA LineAt ==
  ASSUME Paired(file), NEW p \in Nat, p % 2 = 0
  PROVE  /\ p + 2 <= Len(file) => /\ Ends(p) # {} /\ LineEnd(p) = p + 2
                                  /\ Line(p) = Pair(file, p)
                                  /\ Line(p) \in Seq(Byte)
         /\ p + 2 > Len(file) => Ends(p) = {}
<1>0. Len(file) \in Nat /\ file \in Seq(Byte)
  BY LenProperties DEF Paired
<1>1. ASSUME p + 2 > Len(file) PROVE Ends(p) = {}
  BY <1>0, <1>1 DEF Paired, Ends
<1>2. ASSUME p + 2 <= Len(file)
      PROVE  Ends(p) # {} /\ LineEnd(p) = p + 2 /\ Line(p) = Pair(file, p) /\ Line(p) \in Seq(Byte)
  <2>1. p + 2 \in Ends(p) /\ \A m \in Ends(p) : m \in Nat /\ p + 2 <= m
    <3>1. p + 2 \in p + 1 .. Len(file) /\ file[p + 2].nl
      BY <1>0, <1>2 DEF Paired
    <3>2. ASSUME NEW m \in Ends(p) PROVE m \in Nat /\ p + 2 <= m
      <4>1. m \in p + 1 .. Len(file) /\ file[m].nl
        BY DEF Ends
      <4>2. m # p + 1
        BY <1>0, <1>2, <4>1 DEF Paired
      <4> QED
        BY <1>0, <4>1, <4>2
    <3> QED
      BY <3>1, <3>2 DEF Ends
  <2>2. LineEnd(p) = p + 2
    <3>1. LineEnd(p) \in Ends(p) /\ \A m \in Ends(p) : LineEnd(p) <= m
      BY <2>1 DEF LineEnd
    <3> QED
      BY <2>1, <3>1
  <2>3. /\ file[p + 1] \in Byte /\ file[p + 2] \in Byte
        /\ \A i \in p + 1 .. p + 2 : file[i] \in Byte
    <3>1. \A i \in p + 1 .. p + 2 : i \in 1 .. Len(file)
      BY <1>0, <1>2
    <3> QED
      BY <1>0, <3>1, ElementOfSeq
  <2>4. /\ Line(p) \in Seq(Byte) /\ Len(Line(p)) = 2
        /\ Line(p)[1] = file[p + 1] /\ Line(p)[2] = file[p + 2]
    <3>1. p + 1 \in Int /\ p + 2 \in Int /\ p + 1 <= p + 2
      OBVIOUS
    <3>2. /\ SubSeq(file, p + 1, p + 2) \in Seq(Byte)
          /\ Len(SubSeq(file, p + 1, p + 2)) = (p + 2) - (p + 1) + 1
          /\ \A i \in 1 .. (p + 2) - (p + 1) + 1 :
               SubSeq(file, p + 1, p + 2)[i] = file[(p + 1) + i - 1]
      BY <2>3, <3>1, SubSeqProperties
    <3> QED
      BY <2>2, <3>2 DEF Line
  <2>5. /\ Pair(file, p) \in Seq(Byte) /\ Len(Pair(file, p)) = 2
        /\ Pair(file, p)[1] = file[p + 1] /\ Pair(file, p)[2] = file[p + 2]
    BY <2>3 DEF Pair
  <2>6. Line(p) = Pair(file, p)
    <3>1. Len(Line(p)) = Len(Pair(file, p))
      BY <2>4, <2>5
    <3>2. \A i \in 1 .. Len(Line(p)) : Line(p)[i] = Pair(file, p)[i]
      BY <2>4, <2>5
    <3> QED
      BY <2>4, <2>5, <3>1, <3>2, SeqEqual
  <2> QED
    BY <2>1, <2>2, <2>4, <2>6
<1> QED
  BY <1>0, <1>1, <1>2

\* The properties' words for the lines to deliver, and the invariant's.
LEMMA OwedIsToDeliver ==
  ASSUME Paired(file), NEW n \in Nat
  PROVE  /\ Owed(n) = ToDeliver(file, n)
         /\ \A p \in Owed(n) : Line(p) = Pair(file, p)
<1>0. Len(file) \in Nat
  BY LenProperties DEF Paired
<1>1. ASSUME NEW p \in Owed(n) PROVE p \in ToDeliver(file, n) /\ Line(p) = Pair(file, p)
  <2>1. p \in Nat /\ p % 2 = 0 /\ Ends(p) # {} /\ LineEnd(p) <= n /\ ~Kept(Line(p))
    BY <1>0 DEF Owed, Starts, Paired
  <2>2. p + 2 <= Len(file)
    BY <1>0, <2>1, LineAt
  <2> QED
    BY <2>1, <2>2, LineAt DEF ToDeliver, Lines
<1>2. ASSUME NEW p \in ToDeliver(file, n) PROVE p \in Owed(n)
  <2>1. p \in Nat /\ p % 2 = 0 /\ p + 2 <= Len(file) /\ p + 2 <= n /\ ~Kept(Pair(file, p))
    BY DEF ToDeliver, Lines
  <2>2. p \in Starts
    <3>1. p = 0 \/ (p \in 1 .. Len(file) /\ file[p].nl)
      BY <1>0, <2>1 DEF Paired
    <3> QED
      BY <3>1 DEF Starts
  <2> QED
    BY <2>1, <2>2, LineAt DEF Owed
<1> QED
  BY <1>1, <1>2

\* Two lines of the export are not the same.
LEMMA PairsDiffer ==
  ASSUME NEW f, Paired(f), Numbered(f), NEW p \in Lines(f, Len(f)), NEW q \in Lines(f, Len(f)),
         Pair(f, p) = Pair(f, q)
  PROVE  p = q
<1>0. Len(f) \in Nat
  BY LenProperties DEF Paired
<1>1. f[p + 1] = f[q + 1]
  BY DEF Pair
<1>2. /\ p \in Nat /\ p + 1 \in 1..Len(f) /\ (p + 1) % 2 = 1
      /\ q \in Nat /\ q + 1 \in 1..Len(f) /\ (q + 1) % 2 = 1
  BY <1>0 DEF Lines
<1>3. 2 * f[p + 1].line = p + 2 /\ 2 * f[q + 1].line = q + 2
  BY <1>2 DEF Numbered
<1> QED
  BY <1>1, <1>2, <1>3

\* A file that has grown, f to g: the lines of f are still there, and a line of g that
\* was delivered while the file was f is one of f.
LEMMA Growth ==
  ASSUME NEW f, NEW g, Paired(f), Paired(g), Numbered(g),
         Len(f) <= Len(g), \A i \in 1..Len(f) : g[i] = f[i]
  PROVE  /\ \A n \in 0..Len(f) : ToDeliver(g, n) = ToDeliver(f, n)
         /\ ToDeliver(f, Len(f)) \subseteq ToDeliver(g, Len(g))
         /\ \A p \in Lines(f, Len(f)) : Pair(g, p) = Pair(f, p)
         /\ \A q \in ToDeliver(g, Len(g)), p \in ToDeliver(f, Len(f)) :
              Pair(g, q) = Pair(f, p) => q = p
         /\ \A p \in ToDeliver(g, Len(g)), q \in ToDeliver(f, Len(f)) :
              p < q => p \in ToDeliver(f, Len(f))
<1>0. Len(f) \in Nat /\ Len(g) \in Nat
  BY LenProperties DEF Paired
<1>1. \A n \in Nat : \A p \in Lines(f, n) : p \in Lines(g, n) /\ Pair(g, p) = Pair(f, p)
  <2> TAKE n \in Nat
  <2> TAKE p \in Lines(f, n)
  <2>1. p \in Nat /\ p % 2 = 0 /\ p + 2 <= Len(f) /\ p + 2 <= n
    BY DEF Lines
  <2>2. p + 1 \in 1..Len(f) /\ p + 2 \in 1..Len(f)
    BY <1>0, <2>1
  <2> QED
    BY <1>0, <2>1, <2>2 DEF Lines, Pair
<1>2. \A n \in 0..Len(f) : Lines(g, n) = Lines(f, n)
  BY <1>0 DEF Lines
<1>3. \A n \in 0..Len(f) : ToDeliver(g, n) = ToDeliver(f, n)
  <2> TAKE n \in 0..Len(f)
  <2>1. n \in Nat
    BY <1>0
  <2> QED
    BY <2>1, <1>1, <1>2 DEF ToDeliver
<1>4. Lines(f, Len(f)) \subseteq Lines(g, Len(g))
  BY <1>0 DEF Lines
<1>5. ToDeliver(f, Len(f)) \subseteq ToDeliver(g, Len(g))
  BY <1>0, <1>1, <1>4 DEF ToDeliver
<1>6. \A q \in ToDeliver(g, Len(g)), p \in ToDeliver(f, Len(f)) :
        Pair(g, q) = Pair(f, p) => q = p
  <2> SUFFICES ASSUME NEW q \in ToDeliver(g, Len(g)), NEW p \in ToDeliver(f, Len(f)),
                      Pair(g, q) = Pair(f, p)
               PROVE  q = p
    OBVIOUS
  <2>1. q \in Lines(g, Len(g)) /\ p \in Lines(g, Len(g)) /\ p \in Lines(f, Len(f))
    BY <1>4 DEF ToDeliver
  <2>2. Pair(g, q) = Pair(g, p)
    BY <1>0, <1>1, <2>1
  <2> QED
    BY <2>1, <2>2, PairsDiffer
<1>7. \A p \in ToDeliver(g, Len(g)), q \in ToDeliver(f, Len(f)) :
        p < q => p \in ToDeliver(f, Len(f))
  <2> SUFFICES ASSUME NEW p \in ToDeliver(g, Len(g)), NEW q \in ToDeliver(f, Len(f)), p < q
               PROVE  p \in ToDeliver(f, Len(f))
    OBVIOUS
  <2>1. p \in Lines(f, Len(f))
    BY <1>0 DEF ToDeliver, Lines
  <2> QED
    BY <1>0, <1>1, <2>1 DEF ToDeliver
<1> QED
  BY <1>0, <1>1, <1>3, <1>5, <1>6, <1>7
-----------------------------------------------------------------------------
(* The gateway's steps *)

\* One more byte of the right kind.
LEMMA OneMoreByte ==
  ASSUME NEW f, Paired(f), NEW b \in Byte, b.nl <=> (Len(f) + 1) % 2 = 0
  PROVE  /\ Paired(f \o <<b>>) /\ Len(f \o <<b>>) = Len(f) + 1
         /\ \A i \in 1..Len(f) : (f \o <<b>>)[i] = f[i]
         /\ Numbered(f) /\ ((Len(f) + 1) % 2 = 1 => 2 * b.line = Len(f) + 2)
              => Numbered(f \o <<b>>)
<1> DEFINE g == f \o <<b>>
<1>1. f \in Seq(Byte) /\ Len(f) \in Nat /\ \A i \in 1..Len(f) : f[i].nl <=> i % 2 = 0
  BY LenProperties DEF Paired
<1>2. /\ g \in Seq(Byte) /\ Len(g) = Len(f) + 1
      /\ \A i \in 1..Len(f) : g[i] = f[i]
      /\ g[Len(f) + 1] = b
  BY <1>1
<1> HIDE DEF g
<1>3. \A i \in 1..Len(g) : i \in 1..Len(f) \/ i = Len(f) + 1
  BY <1>1, <1>2
<1>4. Paired(g)
  <2> SUFFICES ASSUME NEW i \in 1..Len(g) PROVE g[i].nl <=> i % 2 = 0
    BY <1>2 DEF Paired
  <2>1. CASE i \in 1..Len(f)
    BY <1>1, <1>2, <2>1
  <2>2. CASE i = Len(f) + 1
    BY <1>2, <2>2
  <2> QED
    BY <1>3, <2>1, <2>2
<1>5. ASSUME Numbered(f), (Len(f) + 1) % 2 = 1 => 2 * b.line = Len(f) + 2
      PROVE  Numbered(g)
  <2> SUFFICES ASSUME NEW i \in 1..Len(g), i % 2 = 1 PROVE 2 * g[i].line = i + 1
    BY DEF Numbered
  <2>1. CASE i \in 1..Len(f)
    BY <1>2, <1>5, <2>1 DEF Numbered
  <2>2. CASE i = Len(f) + 1
    <3>1. g[i] = b /\ 2 * b.line = Len(f) + 2
      BY <1>2, <1>5, <2>2
    <3> QED
      BY <1>1, <2>2, <3>1
  <2> QED
    BY <1>3, <2>1, <2>2
<1> QED
  BY <1>2, <1>4, <1>5 DEF g

\* append_trace_line keeps the pairs: it closes a torn line before it begins one.
LEMMA BeginGrows ==
  ASSUME TypeOK, Shape, BeginLine
  PROVE  /\ Paired(file') /\ Len(file) <= Len(file')
         /\ \A i \in 1..Len(file) : file'[i] = file[i]
         /\ lines' \in 0..MaxLines
         /\ Numbered(file) /\ 2 * lines \in {Len(file), Len(file) + 1} =>
              Numbered(file') /\ 2 * lines' \in {Len(file'), Len(file') + 1}
<1> DEFINE first == [line |-> lines + 1, nl |-> FALSE]
           nl == [line |-> 0, nl |-> TRUE]
<1>1. /\ file \in Seq(Byte) /\ Len(file) \in Nat /\ lines \in Nat /\ lines' = lines + 1
      /\ lines' \in 0..MaxLines
      /\ Paired(file) /\ \A i \in 1..Len(file) : file[i].nl <=> i % 2 = 0
  BY LenProperties, ShipperAssumption DEF TypeOK, Shape, Paired, BeginLine
<1>2. first \in Byte /\ nl \in Byte /\ ~first.nl /\ nl.nl /\ first.line = lines + 1
  BY <1>1, ShipperAssumption DEF Byte
<1>3. CASE IsPartial
  <2>1. file' = file \o <<nl>> \o <<first>>
    BY <1>3 DEF BeginLine, Newline
  <2>2. Len(file) > 0 /\ ~file[Len(file)].nl
    BY <1>1, <1>3, EmptySeq DEF IsPartial
  <2>3. (Len(file) + 1) % 2 = 0
    BY <1>1, <2>2
  <2> HIDE DEF first, nl
  <2> DEFINE g == file \o <<nl>>
  <2>4. /\ Paired(g) /\ Len(g) = Len(file) + 1
        /\ \A i \in 1..Len(file) : g[i] = file[i]
        /\ Numbered(file) => Numbered(g)
    BY <1>1, <1>2, <2>3, OneMoreByte
  <2>5. file' = g \o <<first>>
    BY <2>1
  <2> HIDE DEF g
  <2>6. /\ Paired(file') /\ Len(file') = Len(g) + 1
        /\ \A i \in 1..Len(g) : file'[i] = g[i]
        /\ Numbered(g) /\ 2 * first.line = Len(g) + 2 => Numbered(file')
    <3>1. ~((Len(g) + 1) % 2 = 0)
      BY <1>1, <2>3, <2>4
    <3> QED
      BY <1>2, <2>4, <2>5, <3>1, OneMoreByte
  <2>7. \A i \in 1..Len(file) : i \in 1..Len(g) /\ file'[i] = file[i]
    BY <1>1, <2>4, <2>6
  <2>8. ASSUME Numbered(file), 2 * lines \in {Len(file), Len(file) + 1}
        PROVE  Numbered(file') /\ 2 * lines' \in {Len(file'), Len(file') + 1}
    <3>1. 2 * lines = Len(file) + 1
      BY <1>1, <2>3, <2>8
    <3>2. first.line = lines + 1 /\ Len(g) + 2 = Len(file) + 3
      BY <1>1, <1>2, <2>4
    <3>3. 2 * first.line = Len(g) + 2
      BY <1>1, <3>1, <3>2
    <3>4. Len(file') = Len(file) + 2
      BY <1>1, <2>4, <2>6
    <3>5. 2 * lines' = Len(file') + 1
      <4>1. lines' = lines + 1 /\ lines \in Nat /\ Len(file) \in Nat
        BY <1>1
      <4> QED
        BY <3>1, <3>4, <4>1
    <3> QED
      BY <2>4, <2>6, <2>8, <3>3, <3>5
  <2> QED
    BY <1>1, <2>4, <2>6, <2>7, <2>8
<1>4. CASE ~IsPartial
  <2>1. file' = file \o <<first>>
    <3>1. file \o << >> = file
      BY <1>1, ConcatEmptySeq
    <3> QED
      BY <1>4, <3>1 DEF BeginLine
  <2>2. Len(file) % 2 = 0 /\ ~((Len(file) + 1) % 2 = 0)
    <3>1. Len(file) = 0 \/ Len(file) % 2 = 0
      BY <1>1, <1>4, EmptySeq DEF IsPartial
    <3> QED
      BY <1>1, <3>1
  <2> HIDE DEF first, nl
  <2>3. /\ Paired(file') /\ Len(file') = Len(file) + 1
        /\ \A i \in 1..Len(file) : file'[i] = file[i]
        /\ Numbered(file) /\ 2 * first.line = Len(file) + 2 => Numbered(file')
    BY <1>1, <1>2, <2>1, <2>2, OneMoreByte
  <2>4. ASSUME Numbered(file), 2 * lines \in {Len(file), Len(file) + 1}
        PROVE  Numbered(file') /\ 2 * lines' \in {Len(file'), Len(file') + 1}
    <3>1. 2 * lines = Len(file)
      BY <1>1, <2>2, <2>4
    <3>2. 2 * first.line = Len(file) + 2
      BY <1>1, <1>2, <3>1
    <3>3. 2 * lines' = Len(file') + 1
      <4>1. lines' = lines + 1 /\ lines \in Nat /\ Len(file) \in Nat
        BY <1>1
      <4>2. Len(file') = Len(file) + 1
        BY <2>3
      <4> QED
        BY <3>1, <4>1, <4>2
    <3> QED
      BY <2>3, <2>4, <3>2, <3>3
  <2> QED
    BY <1>1, <2>3, <2>4
<1> QED
  BY <1>3, <1>4

\* The newline of the line that is being written.
LEMMA EndGrows ==
  ASSUME TypeOK, Shape, EndLine
  PROVE  /\ Paired(file') /\ Len(file) <= Len(file')
         /\ \A i \in 1..Len(file) : file'[i] = file[i]
         /\ Numbered(file) /\ 2 * lines \in {Len(file), Len(file) + 1} =>
              Numbered(file') /\ 2 * lines' \in {Len(file'), Len(file') + 1}
<1> DEFINE last == [line |-> file[Len(file)].line, nl |-> TRUE]
<1>1. /\ file \in Seq(Byte) /\ Len(file) \in Nat /\ Len(file) > 0 /\ ~file[Len(file)].nl
      /\ lines' = lines /\ lines \in Nat /\ Paired(file)
      /\ \A i \in 1..Len(file) : file[i].nl <=> i % 2 = 0
  BY LenProperties, EmptySeq, ShipperAssumption DEF TypeOK, Shape, Paired, EndLine, IsPartial
<1>2. last \in Byte /\ last.nl
  <2>1. Len(file) \in 1..Len(file)
    BY <1>1
  <2>2. file[Len(file)] \in Byte
    BY <1>1, <2>1, ElementOfSeq
  <2> QED
    BY <2>2 DEF Byte
<1>3. file' = file \o <<last>> /\ (Len(file) + 1) % 2 = 0
  <2>1. file' = file \o <<last>>
    BY DEF EndLine
  <2>2. ~(Len(file) % 2 = 0)
    BY <1>1
  <2>3. \A n \in Nat : ~(n % 2 = 0) => (n + 1) % 2 = 0
    OBVIOUS
  <2>4. (Len(file) + 1) % 2 = 0
    BY <1>1, <2>2, <2>3
  <2> QED
    BY <2>1, <2>4
<1> HIDE DEF last
<1>4. /\ Paired(file') /\ Len(file') = Len(file) + 1
      /\ \A i \in 1..Len(file) : file'[i] = file[i]
      /\ Numbered(file) => Numbered(file')
  BY <1>1, <1>2, <1>3, OneMoreByte
<1>5. ASSUME 2 * lines \in {Len(file), Len(file) + 1}
      PROVE  2 * lines' \in {Len(file'), Len(file') + 1}
  BY <1>1, <1>3, <1>4, <1>5
<1> QED
  BY <1>1, <1>4, <1>5

\* What the gateway appends changes nothing before it, and nothing the shipper has done.
LEMMA GrowthKeepsTailing ==
  ASSUME TypeOK, Shape, Tailing,
         Paired(file'), Numbered(file'), Len(file) <= Len(file'),
         \A i \in 1..Len(file) : file'[i] = file[i],
         2 * lines' \in {Len(file'), Len(file') + 1},
         UNCHANGED <<offset, remote, pc, pos, acked>>
  PROVE  Tailing'
<1>0. Len(file) \in Nat /\ Len(file') \in Nat /\ Paired(file)
  BY LenProperties DEF Shape, Paired
<1>1. /\ \A n \in 0..Len(file) : ToDeliver(file', n) = ToDeliver(file, n)
      /\ ToDeliver(file, Len(file)) \subseteq ToDeliver(file', Len(file'))
      /\ \A p \in Lines(file, Len(file)) : Pair(file', p) = Pair(file, p)
      /\ \A q \in ToDeliver(file', Len(file')), p \in ToDeliver(file, Len(file)) :
           Pair(file', q) = Pair(file, p) => q = p
      /\ \A p \in ToDeliver(file', Len(file')), q \in ToDeliver(file, Len(file)) :
           p < q => p \in ToDeliver(file, Len(file))
  BY <1>0, Growth
<1>2. \A n \in 0..Len(file) : Lines(file, n) \subseteq Lines(file, Len(file))
  BY <1>0 DEF Lines
<1>3. ASSUME NEW n, Between(n), Delivered(n)
      PROVE  /\ n \in Nat /\ n % 2 = 0 /\ n <= Len(file')
             /\ \A p \in ToDeliver(file', n) : Pair(file', p) \in remote'
  <2>1. n \in 0..Len(file) /\ n \in Nat /\ n % 2 = 0 /\ n <= Len(file')
    BY <1>0, <1>3 DEF Between
  <2>2. ASSUME NEW p \in ToDeliver(file', n) PROVE Pair(file', p) \in remote'
    <3>1. p \in ToDeliver(file, n) /\ p \in Lines(file, Len(file))
      BY <1>1, <1>2, <2>1 DEF ToDeliver
    <3> QED
      BY <1>1, <1>3, <3>1 DEF Delivered
  <2> QED
    BY <2>1, <2>2
<1>4. Sent'
  <2> SUFFICES ASSUME NEW line \in remote
               PROVE  \E p \in ToDeliver(file', Len(file')) : line = Pair(file', p)
    BY DEF Sent
  <2>1. PICK p \in ToDeliver(file, Len(file)) : line = Pair(file, p)
    BY DEF Tailing, Sent
  <2>2. p \in ToDeliver(file', Len(file')) /\ line = Pair(file', p)
    BY <1>1, <2>1 DEF ToDeliver
  <2> QED
    BY <2>2
<1>5. InOrder'
  <2> SUFFICES ASSUME NEW p \in ToDeliver(file', Len(file')), NEW q \in ToDeliver(file', Len(file')),
                      p < q, Pair(file', q) \in remote
               PROVE  Pair(file', p) \in remote
    BY DEF InOrder
  <2>1. PICK r \in ToDeliver(file, Len(file)) : Pair(file', q) = Pair(file, r)
    BY DEF Tailing, Sent
  <2>2. q = r
    BY <1>1, <2>1
  <2>3. p \in ToDeliver(file, Len(file)) /\ q \in ToDeliver(file, Len(file))
    BY <1>1, <2>1, <2>2
  <2>4. Pair(file, p) \in remote
    BY <2>1, <2>2, <2>3 DEF Tailing, InOrder
  <2> QED
    BY <1>1, <2>3, <2>4 DEF ToDeliver
<1>6. (/\ Between(acked) /\ Delivered(acked)
       /\ Between(_read_offset) /\ Delivered(_read_offset)
       /\ pc \in {"checked", "reading", "save", "saving"} => Between(pos) /\ Delivered(pos))'
  <2>1. acked' = acked /\ _read_offset' = _read_offset /\ pos' = pos /\ pc' = pc
    BY DEF _read_offset
  <2>2. /\ Between(acked) /\ Delivered(acked)
        /\ Between(_read_offset) /\ Delivered(_read_offset)
        /\ pc \in {"checked", "reading", "save", "saving"} => Between(pos) /\ Delivered(pos)
    BY DEF Tailing
  <2>3. (Between(acked) /\ Delivered(acked))'
    BY <1>3, <2>1, <2>2 DEF Between, Delivered
  <2>4. (Between(_read_offset) /\ Delivered(_read_offset))'
    BY <1>3, <2>1, <2>2 DEF Between, Delivered
  <2>5. (pc \in {"checked", "reading", "save", "saving"} => Between(pos) /\ Delivered(pos))'
    BY <1>3, <2>1, <2>2 DEF Between, Delivered
  <2> QED
    BY <2>3, <2>4, <2>5
<1> QED
  BY <1>4, <1>5, <1>6 DEF Tailing
-----------------------------------------------------------------------------
(* The shipper's steps *)

\* A line ends two bytes on, and the places before it are the ones before and itself.
LEMMA NextLine ==
  ASSUME Paired(file), NEW p \in Nat, p % 2 = 0, Ends(p) # {}
  PROVE  /\ LineEnd(p) = p + 2 /\ (p + 2) % 2 = 0 /\ p + 2 <= Len(file)
         /\ Line(p) = Pair(file, p) /\ Line(p) \in Seq(Byte)
         /\ p \in Lines(file, Len(file))
         /\ ToDeliver(file, p + 2) \subseteq ToDeliver(file, p) \cup {p}
         /\ p \in ToDeliver(file, Len(file)) <=> ~Kept(Line(p))
<1>1. Len(file) \in Nat
  BY LenProperties DEF Paired
<1>2. p + 2 <= Len(file) /\ (p + 2) % 2 = 0
  BY <1>1, LineAt
<1>3. LineEnd(p) = p + 2 /\ Line(p) = Pair(file, p) /\ Line(p) \in Seq(Byte)
  BY <1>2, LineAt
<1>4. p \in Lines(file, Len(file))
  BY <1>1, <1>2 DEF Lines
<1>5. Lines(file, p + 2) \subseteq Lines(file, p) \cup {p}
  BY <1>1 DEF Lines
<1> QED
  BY <1>2, <1>3, <1>4, <1>5 DEF ToDeliver

\* A line is posted when everything before it has been delivered.
LEMMA PostKeepsSent ==
  ASSUME TypeOK, Shape, Tailing, pc = "reading", Ends(pos) # {}, ~Kept(Line(pos)),
         file' = file, remote' \in {remote, remote \cup {Line(pos)}}
  PROVE  /\ Sent' /\ InOrder'
         /\ \A n : Delivered(n) => \A p \in ToDeliver(file', n) : Pair(file', p) \in remote'
<1>1. /\ pos \in Nat /\ pos % 2 = 0 /\ Paired(file)
      /\ pos \in ToDeliver(file, Len(file)) /\ Line(pos) = Pair(file, pos)
      /\ pos \in Lines(file, Len(file)) /\ pos <= Len(file) /\ Len(file) \in Nat
      /\ Delivered(pos)
  BY NextLine DEF TypeOK, Shape, Tailing, Between
<1>2. Sent'
  BY <1>1 DEF Sent, Tailing
<1>3. InOrder'
  <2> SUFFICES ASSUME NEW p \in ToDeliver(file, Len(file)), NEW q \in ToDeliver(file, Len(file)),
                      p < q, Pair(file, q) \in remote'
               PROVE  Pair(file, p) \in remote'
    BY DEF InOrder
  <2>1. remote \subseteq remote'
    OBVIOUS
  <2>2. CASE Pair(file, q) \in remote
    BY <2>1, <2>2 DEF Tailing, InOrder
  <2>3. CASE Pair(file, q) = Pair(file, pos)
    <3>1. q = pos
      BY <1>1, <2>3, PairsDiffer DEF Tailing, ToDeliver
    <3>2. p \in ToDeliver(file, pos)
      BY <1>1, <3>1 DEF ToDeliver, Lines
    <3> QED
      BY <1>1, <2>1, <3>2 DEF Delivered
  <2> QED
    BY <1>1, <2>2, <2>3
<1> QED
  BY <1>2, <1>3 DEF Delivered

\* The empty export, with nothing delivered.
LEMMA InductiveInit == Init => IInv
<1> SUFFICES ASSUME Init PROVE IInv
  OBVIOUS
<1>1. /\ file \in Seq(Byte) /\ Len(file) = 0 /\ remote = {} /\ pos = 0 /\ acked = 0 /\ offset = 0
      /\ 0 \in Nat /\ lines = 0 /\ pc = "idle" /\ offset # Empty /\ cut = FALSE /\ faults = 0
      /\ 0 % 2 = 0
  BY ShipperAssumption DEF Init
<1>2. Shape
  <2>1. Paired(file)
    BY <1>1 DEF Paired
  <2> QED
    BY <1>1, <2>1 DEF Shape
<1>3. TypeOK
  <2>1. 0 \in 0..MaxLines /\ 0 \in 0..MaxFaults
    BY ShipperAssumption
  <2>2. \A line \in remote : line \in Seq(Byte)
    BY <1>1
  <2> QED
    BY <1>1, <2>1, <2>2 DEF TypeOK
<1>4. \A n : ToDeliver(file, n) = {}
  BY <1>1 DEF ToDeliver, Lines
<1>5. Tailing
  BY <1>1, <1>4 DEF Tailing, Numbered, Between, Delivered, Sent, InOrder, _read_offset
<1> QED
  BY <1>2, <1>3, <1>5 DEF IInv

\* The gateway, and a cut.
LEMMA GatewayKeeps ==
  ASSUME IInv, BeginLine \/ EndLine \/ Cut
  PROVE  IInv'
<1>0. TypeOK /\ Shape /\ (~cut => Tailing)
  BY DEF IInv
<1>1. CASE BeginLine
  <2>1. UNCHANGED <<offset, remote, pc, pos, acked, cut, faults>>
    BY <1>1 DEF BeginLine
  <2>2. TypeOK' /\ Shape'
    BY <1>0, <1>1, <2>1, BeginGrows DEF TypeOK, Shape, Paired
  <2>3. ~cut' => Tailing'
    BY <1>0, <1>1, <2>1, BeginGrows, GrowthKeepsTailing DEF Tailing
  <2> QED
    BY <2>2, <2>3 DEF IInv
<1>2. CASE EndLine
  <2>1. UNCHANGED <<offset, remote, pc, pos, lines, acked, cut, faults>>
    BY <1>2 DEF EndLine
  <2>2. TypeOK' /\ Shape'
    BY <1>0, <1>2, <2>1, EndGrows DEF TypeOK, Shape, Paired
  <2>3. ~cut' => Tailing'
    BY <1>0, <1>2, <2>1, EndGrows, GrowthKeepsTailing DEF Tailing
  <2> QED
    BY <2>2, <2>3 DEF IInv
<1>3. CASE Cut
  <2>1. UNCHANGED <<offset, remote, pc, pos, lines, acked, faults>> /\ cut' = TRUE
    BY <1>3 DEF Cut
  <2>2. PICK n \in 0 .. Len(file) - 1 : file' = SubSeq(file, 1, n)
    BY <1>3 DEF Cut
  <2>3. file \in Seq(Byte) /\ Len(file) \in Nat /\ \A i \in 1..Len(file) : file[i].nl <=> i % 2 = 0
    BY <1>0, LenProperties DEF Shape, Paired
  <2>4. n \in Nat /\ n <= Len(file) /\ \A i \in 1..n : i \in 1..Len(file) /\ file[i] \in Byte
    BY <2>2, <2>3, ElementOfSeq
  <2>5. file' \in Seq(Byte) /\ Len(file') = n /\ \A i \in 1..n : file'[i] = file[i]
    <3>1. /\ SubSeq(file, 1, n) \in Seq(Byte)
          /\ Len(SubSeq(file, 1, n)) = IF 1 <= n THEN n - 1 + 1 ELSE 0
          /\ \A i \in 1 .. n - 1 + 1 : SubSeq(file, 1, n)[i] = file[1 + i - 1]
      BY <2>4, SubSeqProperties
    <3> QED
      BY <2>2, <2>4, <3>1
  <2>6. Paired(file')
    <3> SUFFICES ASSUME NEW i \in 1..n PROVE file'[i].nl <=> i % 2 = 0
      BY <2>5 DEF Paired
    <3> QED
      BY <2>3, <2>4, <2>5
  <2> QED
    BY <1>0, <2>1, <2>5, <2>6 DEF IInv, TypeOK, Shape
<1> QED
  BY <1>1, <1>2, <1>3

\* Reading the offset and the file.
LEMMA ReadingKeeps ==
  ASSUME IInv, ReadOffset \/ Open \/ NoLine \/ KeepIntent \/ PostAccepted \/ PostFails
  PROVE  IInv'
<1>0. /\ TypeOK /\ Shape /\ (~cut => Tailing)
      /\ Paired(file) /\ pos \in Nat /\ pos % 2 = 0 /\ _read_offset \in Nat /\ _read_offset % 2 = 0
  BY ShipperAssumption DEF IInv, TypeOK, Shape, _read_offset
<1>1. CASE ReadOffset
  <2>1. /\ UNCHANGED <<file, lines, cut, offset, remote, acked, faults>>
        /\ pos' = _read_offset /\ pc' = IF _read_offset > Len(file) THEN "stopped" ELSE "checked"
    BY <1>1 DEF ReadOffset, gateway
  <2>2. ~cut' => Tailing'
    <3> SUFFICES ASSUME ~cut PROVE Tailing'
      BY <2>1
    <3>1. Tailing /\ _read_offset' = _read_offset
      BY <1>0, <2>1 DEF _read_offset
    <3>2. Between(_read_offset) /\ Delivered(_read_offset)
      BY <3>1 DEF Tailing
    <3>3. (Between(pos) /\ Delivered(pos))'
      BY <2>1, <3>2 DEF Between, Delivered
    <3>4. (/\ Between(acked) /\ Delivered(acked)
           /\ Between(_read_offset) /\ Delivered(_read_offset))'
      BY <2>1, <3>1 DEF Tailing, Between, Delivered
    <3>5. Sent' /\ InOrder'
      BY <2>1, <3>1 DEF Tailing, Sent, InOrder
    <3>6. pc' # "stopped"
      <4>1. Len(file) \in Nat /\ _read_offset <= Len(file)
        BY <3>2, LenProperties DEF Between, IInv, TypeOK
      <4> QED
        BY <1>0, <2>1, <4>1
    <3>7. Numbered(file') /\ 2 * lines' \in {Len(file'), Len(file') + 1}
      BY <2>1, <3>1 DEF Tailing
    <3> QED
      BY <3>3, <3>4, <3>5, <3>6, <3>7 DEF Tailing
  <2>3. TypeOK' /\ Shape'
    BY <1>0, <2>1 DEF TypeOK, Shape
  <2> QED
    BY <2>2, <2>3 DEF IInv
<1>2. CASE Open \/ NoLine
  <2>1. /\ UNCHANGED <<file, lines, cut, offset, remote, pos, acked, faults>>
        /\ pc' = "idle" \/ (pc = "checked" /\ pc' = "reading")
    BY <1>2 DEF Open, NoLine, gateway
  <2>2. ~cut' => Tailing'
    <3> SUFFICES ASSUME ~cut PROVE Tailing'
      BY <2>1
    <3>1. Tailing /\ _read_offset' = _read_offset
      BY <1>0, <2>1 DEF _read_offset
    <3>2. pc' \in {"checked", "reading", "save", "saving"} => Between(pos) /\ Delivered(pos)
      BY <2>1, <3>1 DEF Tailing
    <3>3. (pc \in {"checked", "reading", "save", "saving"} => Between(pos) /\ Delivered(pos))'
      BY <2>1, <3>2 DEF Between, Delivered
    <3>4. (/\ Between(acked) /\ Delivered(acked)
           /\ Between(_read_offset) /\ Delivered(_read_offset))'
      BY <2>1, <3>1 DEF Tailing, Between, Delivered
    <3>5. Sent' /\ InOrder'
      BY <2>1, <3>1 DEF Tailing, Sent, InOrder
    <3>6. Numbered(file') /\ 2 * lines' \in {Len(file'), Len(file') + 1} /\ pc' # "stopped"
      BY <2>1, <3>1 DEF Tailing
    <3> QED
      BY <3>3, <3>4, <3>5, <3>6 DEF Tailing
  <2>3. TypeOK' /\ Shape'
    BY <1>0, <2>1 DEF TypeOK, Shape
  <2> QED
    BY <2>2, <2>3 DEF IInv
<1>3. CASE KeepIntent
  <2>1. /\ UNCHANGED <<file, lines, cut, offset, remote, acked, faults>>
        /\ pc = "reading" /\ Ends(pos) # {} /\ Kept(Line(pos))
        /\ pos' = LineEnd(pos) /\ pc' = "save"
    BY <1>3 DEF KeepIntent, gateway
  <2>2. /\ pos' = pos + 2 /\ (pos + 2) % 2 = 0 /\ pos + 2 <= Len(file) /\ pos + 2 \in Nat
        /\ ToDeliver(file, pos + 2) \subseteq ToDeliver(file, pos)
    <3>1. Line(pos) = Pair(file, pos) /\ pos \notin ToDeliver(file, pos + 2)
      BY <1>0, <2>1, NextLine DEF ToDeliver
    <3> QED
      BY <1>0, <2>1, <3>1, NextLine
  <2>3. TypeOK' /\ Shape'
    BY <1>0, <2>1, <2>2 DEF TypeOK, Shape
  <2>4. ~cut' => Tailing'
    <3> SUFFICES ASSUME ~cut PROVE Tailing'
      BY <2>1
    <3>1. Tailing /\ Delivered(pos)
      BY <1>0, <2>1 DEF Tailing
    <3>2. Delivered(pos + 2)
      BY <2>2, <3>1 DEF Delivered
    <3> QED
      BY <2>1, <2>2, <3>1, <3>2 DEF Tailing, Between, Delivered, Sent, InOrder, _read_offset
  <2> QED
    BY <2>3, <2>4 DEF IInv
<1>4. CASE PostAccepted \/ PostFails
  <2>1. /\ UNCHANGED <<file, lines, cut, offset, acked, faults>>
        /\ pc = "reading" /\ Ends(pos) # {} /\ ~Kept(Line(pos))
        /\ remote' \in {remote, remote \cup {Line(pos)}}
        /\ \/ pc' = "idle" /\ pos' = pos
           \/ pc' = "save" /\ pos' = LineEnd(pos) /\ Line(pos) \in remote'
    BY <1>4 DEF PostAccepted, PostFails, gateway
  <2>2. /\ LineEnd(pos) = pos + 2 /\ (pos + 2) % 2 = 0 /\ pos + 2 <= Len(file)
        /\ Line(pos) = Pair(file, pos) /\ Line(pos) \in Seq(Byte) /\ pos + 2 \in Nat
        /\ ToDeliver(file, pos + 2) \subseteq ToDeliver(file, pos) \cup {pos}
    BY <1>0, <2>1, NextLine
  <2>3. TypeOK' /\ Shape'
    BY <1>0, <2>1, <2>2 DEF TypeOK, Shape
  <2>4. ~cut' => Tailing'
    <3> SUFFICES ASSUME ~cut PROVE Tailing'
      BY <2>1
    <3>1. Tailing /\ Delivered(pos)
      BY <1>0, <2>1 DEF Tailing
    <3>2. /\ Sent' /\ InOrder'
          /\ \A n : Delivered(n) => \A p \in ToDeliver(file', n) : Pair(file', p) \in remote'
      BY <1>0, <2>1, <3>1, PostKeepsSent
    <3>3. pc' = "save" =>
            \A p \in ToDeliver(file', pos') : Pair(file', p) \in remote'
      BY <2>1, <2>2, <3>1, <3>2
    <3>4. (/\ Between(acked) /\ Delivered(acked)
           /\ Between(_read_offset) /\ Delivered(_read_offset))'
      BY <2>1, <3>1, <3>2 DEF Tailing, Between, Delivered, _read_offset
    <3>5. (pc \in {"checked", "reading", "save", "saving"} => Between(pos) /\ Delivered(pos))'
      BY <1>0, <2>1, <2>2, <3>3 DEF Between, Delivered
    <3>6. Numbered(file') /\ 2 * lines' \in {Len(file'), Len(file') + 1} /\ pc' # "stopped"
      BY <2>1, <3>1 DEF Tailing
    <3> QED
      BY <3>2, <3>4, <3>5, <3>6 DEF Tailing
  <2> QED
    BY <2>3, <2>4 DEF IInv
<1> QED
  BY <1>1, <1>2, <1>3, <1>4

\* _write_offset, and what interrupts it.
LEMMA SavingKeeps ==
  ASSUME IInv, BeginSave \/ EndSave \/ Fault \/ UNCHANGED vars
  PROVE  IInv'
<1>0. /\ TypeOK /\ Shape /\ (~cut => Tailing)
      /\ Paired(file) /\ pos \in Nat /\ pos % 2 = 0 /\ acked \in Nat /\ acked % 2 = 0
      /\ Len(file) \in Nat /\ Empty \notin Nat /\ 0 \in Nat /\ 0 % 2 = 0
  BY ShipperAssumption, LenProperties DEF IInv, TypeOK, Shape, Paired
<1>1. CASE BeginSave
  <2>1. /\ UNCHANGED <<file, lines, cut, remote, pos, acked, faults>>
        /\ pc = "save" /\ pc' = "saving" /\ offset' = Empty /\ _read_offset' = 0
    BY <1>1 DEF BeginSave, gateway, _read_offset
  <2>2. TypeOK' /\ Shape'
    BY <1>0, <2>1 DEF TypeOK, Shape
  <2>3. ToDeliver(file, 0) = {}
    BY <1>0 DEF ToDeliver, Lines
  <2>4. ~cut' => Tailing'
    BY <1>0, <2>1, <2>3 DEF Tailing, Between, Delivered, Sent, InOrder
  <2> QED
    BY <2>2, <2>4 DEF IInv
<1>2. CASE EndSave
  <2>1. /\ UNCHANGED <<file, lines, cut, remote, pos, faults>>
        /\ pc = "saving" /\ pc' = "reading" /\ offset' = pos /\ offset' # Empty
        /\ _read_offset' = pos /\ acked' \in {pos, acked}
    BY <1>0, <1>2 DEF EndSave, gateway, _read_offset
  <2>2. TypeOK' /\ Shape'
    BY <1>0, <2>1 DEF TypeOK, Shape
  <2>3. ~cut' => Tailing'
    BY <1>0, <2>1 DEF Tailing, Between, Delivered, Sent, InOrder
  <2> QED
    BY <2>2, <2>3 DEF IInv
<1>3. CASE Fault
  <2>1. /\ UNCHANGED <<file, lines, cut, offset, remote, pos, acked>>
        /\ pc' = "idle" /\ faults' = faults + 1 /\ faults < MaxFaults
    BY <1>3 DEF Fault, gateway
  <2>2. TypeOK' /\ Shape'
    BY <1>0, <2>1, ShipperAssumption DEF TypeOK, Shape
  <2>3. ~cut' => Tailing'
    BY <1>0, <2>1 DEF Tailing, Between, Delivered, Sent, InOrder, _read_offset
  <2> QED
    BY <2>2, <2>3 DEF IInv
<1>4. CASE UNCHANGED vars
  <2>1. ~cut' => Tailing'
    BY <1>0, <1>4 DEF vars, Tailing, Between, Delivered, Sent, InOrder, _read_offset
  <2>2. TypeOK' /\ Shape'
    BY <1>0, <1>4 DEF vars, TypeOK, Shape
  <2> QED
    BY <2>1, <2>2 DEF IInv
<1> QED
  BY <1>1, <1>2, <1>3, <1>4

\* The invariant of the shipper and its export.
LEMMA Inductive == Spec => []IInv
<1>1. IInv /\ [Next]_vars => IInv'
  <2> SUFFICES ASSUME IInv, [Next]_vars PROVE IInv'
    OBVIOUS
  <2>1. CASE BeginLine \/ EndLine \/ Cut
    BY <2>1, GatewayKeeps
  <2>2. CASE ReadOffset \/ Open \/ NoLine \/ KeepIntent \/ PostAccepted \/ PostFails
    BY <2>2, ReadingKeeps
  <2>3. CASE BeginSave \/ EndSave \/ Fault \/ UNCHANGED vars
    BY <2>3, SavingKeeps
  <2> QED
    BY <2>1, <2>2, <2>3 DEF Next, Ship
<1> QED
  BY <1>1, InductiveInit, PTL DEF Spec
-----------------------------------------------------------------------------
(* The properties *)

\* TypeOK: the offset file holds a number or nothing, and what the remote has are lines.
THEOREM TypeCorrect == Spec => []TypeOK
<1>1. IInv => TypeOK
  BY DEF IInv
<1> QED
  BY <1>1, Inductive, PTL

\* NothingSkipped: while the export is whole, every line before the place the shipper has
\* kept was delivered, whatever was refused, lost, torn or interrupted.
THEOREM NothingSkippedAlways == Spec => []NothingSkipped
<1>1. IInv => NothingSkipped
  <2> SUFFICES ASSUME IInv, ~cut PROVE \A p \in Owed(acked) : Line(p) \in remote
    BY DEF NothingSkipped
  <2>1. Paired(file) /\ acked \in Nat /\ Delivered(acked)
    BY DEF IInv, TypeOK, Shape, Tailing
  <2> QED
    BY <2>1, OwedIsToDeliver DEF Delivered
<1> QED
  BY <1>1, Inductive, PTL

\* DeliveredInOrder: a line that was delivered has every owed line before it delivered.
THEOREM DeliveredInOrderAlways == Spec => []DeliveredInOrder
<1>1. IInv => DeliveredInOrder
  <2> SUFFICES ASSUME IInv, ~cut, NEW p \in Owed(Len(file)), NEW q \in Owed(Len(file)),
                      p < q, Line(q) \in remote
               PROVE  Line(p) \in remote
    BY DEF DeliveredInOrder
  <2>1. Paired(file) /\ Len(file) \in Nat /\ InOrder
    BY LenProperties DEF IInv, Shape, Tailing, Paired
  <2> QED
    BY <2>1, OwedIsToDeliver DEF InOrder
<1> QED
  BY <1>1, Inductive, PTL

\* StopIsTrue: the shipper stops only when the export was cut.
THEOREM StopIsTrueAlways == Spec => []StopIsTrue
<1>1. IInv => StopIsTrue
  BY DEF IInv, StopIsTrue, Tailing
<1> QED
  BY <1>1, Inductive, PTL
=============================================================================
