------------------------------ MODULE NtfsRecord ------------------------------
(***************************************************************************)
(* One record of $MFT, from its bytes (tibread/ntfs.py): _apply_fixups,    *)
(* _parse_mft_record, _decode_runs, _parse_file_name, _maybe_parse_wof.    *)
(*                                                                         *)
(* A record is a row of cells, a number of any width one cell, a byte of a *)
(* run list one cell.  The last cell of each sector holds the record's     *)
(* tag; what belongs there is in the array behind the header, so that a    *)
(* record of which only some sectors were written can be told.             *)
(*                                                                         *)
(* A step takes one attribute.                                             *)
(***************************************************************************)
EXTENDS Integers, Sequences, FiniteSets, SequencesExt, FiniteSetsExt, Eager

CONSTANTS Sector,     \* 512 bytes
          RunByte,    \* 256, even
          Nibble,     \* 16
          Priority,   \* name space |-> rank
          ChunkOf     \* algorithm of WOF |-> chunk size; others are not read

(* Cells of the header, and of the header of an attribute.                   *)
File == 1
ArrayAt == 2
ArrayLen == 3
InUse == 4
FirstAttr == 5
Number == 6
HeaderLen == 6

TypeAt == 1
LenAt == 2
FormAt == 3
FlagsAt == 4
NameAt == 5
SizeAt == 6
DataAt == 7
UnitAt == 8

(* Types of attributes, and their flags.                                     *)
End == 0
Names == 1
Reparse == 2
Data == 3
Encrypted == 1
Compressed == 2

(* What buf[p:q] gives: no more than there is.                               *)
Cut(buf, p, q) == SubSeq(buf, p + 1, Min({q, Len(buf)}))

-----------------------------------------------------------------------------
(* _apply_fixups: the sectors up to the first that has another tag.          *)

SectorEnd(i) == i * Sector

FixupsBad(buf) == buf[ArrayLen] < 1 \/ buf[ArrayAt] + buf[ArrayLen] > Len(buf)

Fixed(buf) ==
    LET tag == buf[buf[ArrayAt] + 1]
        Torn(i) == buf[SectorEnd(i)] # tag
        sectors == {i \in 1..(buf[ArrayLen] - 1) : SectorEnd(i) <= Len(buf)}
        good == {i \in sectors : \A j \in 1..i : ~ Torn(j)}
    IN [p \in DOMAIN buf |->
            IF \E i \in good : p = SectorEnd(i) THEN buf[buf[ArrayAt] + 1 + (p \div Sector)] ELSE buf[p]]

-----------------------------------------------------------------------------
(* _decode_runs: a nibble for the bytes of the length, one for those of the  *)
(* place, which is signed and counts from the place of the run before.       *)

Value(bytes) == MapThenSumSet(LAMBDA k : bytes[k] * RunByte^(k - 1), DOMAIN bytes)
Signed(bytes) == LET v == Value(bytes)
                 IN IF 2 * v >= RunByte^Len(bytes) THEN v - RunByte^Len(bytes) ELSE v

Sparse == -1000

RunStep(buf, r) ==
    LET lenBytes == buf[r.p + 1] % Nibble
        offBytes == buf[r.p + 1] \div Nibble
        p        == r.p + 1
        lcn      == r.lcn + Signed(Cut(buf, p + lenBytes, p + lenBytes + offBytes))
        length   == Value(Cut(buf, p, p + lenBytes))
    IN IF r.p >= Len(buf) THEN r
       ELSE IF lenBytes = 0 \/ p + lenBytes + offBytes > Len(buf) THEN [r EXCEPT !.p = Len(buf)]
       ELSE [p |-> p + lenBytes + offBytes,
             lcn |-> IF offBytes = 0 THEN r.lcn ELSE lcn,
             runs |-> Append(r.runs, <<length, IF offBytes = 0 THEN Sparse ELSE lcn>>)]

DecodeRuns(buf, off) ==
    FoldLeft(LAMBDA r, k : Given(r, LAMBDA q : RunStep(buf, q)), [p |-> off, lcn |-> 0, runs |-> << >>],
             [k \in 1..Max({0, Len(buf) - off}) |-> k]).runs

-----------------------------------------------------------------------------
(* Attributes *)

NoName == [parent |-> -1, space |-> -1, name |-> << >>]

(* The names a content holds: one, or none.                                  *)
ParseFileName(c) ==
    IF Len(c) < 3 THEN {}
    ELSE IF 3 + c[3] > Len(c) THEN {}
    ELSE {[parent |-> c[1], space |-> c[2], name |-> SubSeq(c, 4, 3 + c[3])]}

(* The chunk size of a file that is compressed by WOF in a way that is read. *)
WofTag == 9
MaybeParseWof(c, chunk) ==
    IF Len(c) < 2 THEN chunk
    ELSE IF c[1] # WofTag \/ 2 + c[2] > Len(c) \/ c[2] < 4 THEN chunk
    ELSE IF c[3] # 1 \/ c[4] # 2 \/ c[5] # 1 \/ c[6] \notin DOMAIN ChunkOf THEN chunk
    ELSE ChunkOf[c[6]]

Start(raw, expected) ==
    LET file == Len(raw) >= HeaderLen /\ raw[File] = 1
        ok   == file /\ ~ FixupsBad(raw)
        buf  == IF ok THEN Fixed(raw) ELSE << >>
    IN [buf |-> buf, pos |-> IF ok THEN buf[FirstAttr] ELSE 0, none |-> ~ ok, ended |-> ~ ok,
        error |-> FALSE,
        number |-> IF ~ ok THEN -1 ELSE IF buf[Number] = 0 THEN expected ELSE buf[Number],
        inUse |-> ok /\ buf[InUse] = 1, attrs |-> << >>, names |-> << >>, chunk |-> 0,
        best |-> NoName, wofSize |-> 0]

Resident(s) ==
    LET at   == SubSeq(s.buf, s.pos + 1, Len(s.buf))
        size == IF at[DataAt] + at[SizeAt] > at[LenAt] THEN Max({0, at[LenAt] - at[DataAt]})
                ELSE at[SizeAt]
        c    == Cut(at, at[DataAt], at[DataAt] + size)
    IN [s EXCEPT !.attrs = Append(@, [type |-> at[TypeAt], name |-> at[NameAt], unit |-> 0,
                                      real |-> Len(c), content |-> c, runs |-> << >>]),
                 !.names = IF at[TypeAt] = Names THEN @ \o SetToSeq(ParseFileName(c)) ELSE @,
                 !.chunk = IF at[TypeAt] = Reparse THEN MaybeParseWof(c, @) ELSE @,
                 !.pos = @ + at[LenAt]]

NonResident(s) ==
    LET at == SubSeq(s.buf, s.pos + 1, Len(s.buf))
        unit == IF at[FlagsAt] # Compressed THEN 0 ELSE IF at[UnitAt] = 0 THEN 4 ELSE at[UnitAt]
        runs == IF at[DataAt] >= at[LenAt] THEN << >>
                ELSE DecodeRuns(SubSeq(at, 1, at[LenAt]), at[DataAt])
    IN [s EXCEPT !.attrs = Append(@, [type |-> at[TypeAt], name |-> at[NameAt], unit |-> unit,
                                      real |-> at[SizeAt], content |-> << >>, runs |-> runs]),
                 !.pos = @ + at[LenAt]]

(* The first of the names with the best name space.                          *)
BestName(s) ==
    LET Rank(k) == IF s.names[k].space \in DOMAIN Priority THEN Priority[s.names[k].space] ELSE 99
        best == {k \in DOMAIN s.names : \A j \in DOMAIN s.names : Rank(k) <= Rank(j)}
    IN IF s.names = << >> THEN NoName ELSE s.names[Min(best)]

(* The size of a file compressed by WOF is that of its unnamed $DATA.        *)
WofSize(s) ==
    LET data == {k \in DOMAIN s.attrs : s.attrs[k].type = Data /\ s.attrs[k].name = 0}
    IN IF s.chunk = 0 \/ data = {} THEN 0 ELSE s.attrs[Min(data)].real

Finish(s) == [s EXCEPT !.ended = TRUE, !.best = BestName(s), !.wofSize = WofSize(s)]

(* The next attribute is looked at, or the same again. *)
SkipNothing(s) == s
Skip(s) == [s EXCEPT !.pos = @ + s.buf[@ + LenAt]]

(* struct.unpack_from raises when the header of an attribute is cut short.   *)
ParseStep(s) ==
    LET left == Len(s.buf) - s.pos
        at   == SubSeq(s.buf, s.pos + 1, Len(s.buf))
    IN IF left < 2 THEN Finish(s)
       ELSE IF at[TypeAt] = End \/ left < NameAt THEN Finish(s)
       ELSE IF at[LenAt] = 0 \/ at[LenAt] > left THEN Finish(s)
       ELSE IF at[FlagsAt] = Encrypted THEN Skip(s)
       ELSE IF left < (IF at[FormAt] = 0 THEN DataAt ELSE UnitAt) THEN [s EXCEPT !.error = TRUE, !.ended = TRUE]
       ELSE IF at[FormAt] = 0 THEN Resident(s) ELSE NonResident(s)

Ended(s) == s.ended

-----------------------------------------------------------------------------
(* The writer's side.  An attribute is [type, name, flags, unit, content,    *)
(* runs, real]; one with runs is not resident.                               *)

(* Bytes of a number, and as few of a signed one as keep its sign.           *)
Digits(v, n) == [k \in 1..n |-> (v \div RunByte^(k - 1)) % RunByte]
BytesOf(v)   == Min({n \in 1..3 : v < RunByte^n})
SignedBytes(v) == Min({n \in 1..3 : -(RunByte^n) <= 2 * v /\ 2 * v < RunByte^n})

RunBytes(runs) ==
    LET Written(o, r) ==
            IF r[2] = Sparse
            THEN [o EXCEPT !.out = @ \o <<BytesOf(r[1])>> \o Digits(r[1], BytesOf(r[1]))]
            ELSE LET d == r[2] - o.lcn
                     n == SignedBytes(d)
                 IN [lcn |-> r[2],
                     out |-> o.out \o <<BytesOf(r[1]) + Nibble * n>> \o Digits(r[1], BytesOf(r[1]))
                                   \o Digits(d + RunByte^n, n)]
    IN FoldLeft(LAMBDA o, r : Given(o, LAMBDA p : Written(p, r)), [lcn |-> 0, out |-> << >>], runs).out \o <<0>>

AttrCells(a) ==
    IF a.runs = << >>
    THEN <<a.type, 7 + Len(a.content), 0, a.flags, a.name, Len(a.content), 7>> \o a.content
    ELSE <<a.type, 8 + Len(RunBytes(a.runs)), 1, a.flags, a.name, a.real, 8, a.unit>> \o RunBytes(a.runs)

(* A record of n sectors: its header, the array, the attributes, an end.     *)
Record(attrs, tag, n) ==
    LET array == [i \in 1..(n + 1) |-> tag]
        head  == <<1, HeaderLen, n + 1, 1, HeaderLen + n + 1, 0>>
        body  == head \o array \o FlattenSeq([k \in DOMAIN attrs |-> AttrCells(attrs[k])]) \o <<End>>
        full  == body \o [k \in 1..(n * Sector - Len(body)) |-> 0]
    IN [p \in 1..(n * Sector) |->
            IF p % Sector = 0 THEN tag
            ELSE IF p \in (HeaderLen + 2)..(HeaderLen + n + 1) THEN full[SectorEnd(p - HeaderLen - 1)]
            ELSE full[p]]

(* What is left when only the sectors of S were written over an older record.*)
Torn(old, new, S) == [p \in DOMAIN new |-> IF (p - 1) \div Sector + 1 \in S THEN new[p] ELSE old[p]]
=============================================================================
