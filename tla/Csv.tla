--------------------------------- MODULE Csv ---------------------------------
(***************************************************************************)
(* Reading and writing of CSV files (src/domain/csv.ts), which the import  *)
(* of collaborators parses and the export produces.  A text is a sequence  *)
(* of characters, a buffer a sequence of bytes.                            *)
(***************************************************************************)
EXTENDS Integers, SequencesExt

COMMA == ","
SEMI == ";"
TAB == "tab"
QUOTE == "quote"
LF == "lf"
CR == "cr"
BOM == "bom"
SPACE == "space"

-----------------------------------------------------------------------------
(* Writing.  A cell is quoted only when it needs to be. *)
BadQuoted(cell, delim) ==
  IF \E i \in DOMAIN cell : cell[i] \in {delim, QUOTE, LF, CR}
    THEN <<QUOTE>> \o cell \o <<QUOTE>> ELSE cell

Quoted(cell, delim) ==
  IF \E i \in DOMAIN cell : cell[i] \in {delim, QUOTE, LF, CR}
    THEN <<QUOTE>> \o FlattenSeq([i \in DOMAIN cell |->
                        IF cell[i] = QUOTE THEN <<QUOTE, QUOTE>> ELSE <<cell[i]>>]) \o <<QUOTE>>
    ELSE cell

JoinWith(parts, sep) ==
  FlattenSeq([i \in DOMAIN parts |-> IF i = 1 THEN parts[i] ELSE sep \o parts[i]])

toCsv(rows, delim) ==
  JoinWith([i \in DOMAIN rows |->
             JoinWith([j \in DOMAIN rows[i] |-> Quoted(rows[i][j], delim)], <<delim>>)],
           <<CR, LF>>)

-----------------------------------------------------------------------------
(* Reading. *)
Blank == {SPACE, TAB, LF, CR, BOM}
IsBlank(cell) == \A i \in DOMAIN cell : cell[i] \in Blank

(* String.trim *)
Trim(cell) ==
  LET kept == {i \in DOMAIN cell : cell[i] \notin Blank} IN
  IF kept = {} THEN << >>
  ELSE SubSeq(cell, CHOOSE i \in kept : \A j \in kept : i <= j,
                    CHOOSE i \in kept : \A j \in kept : i >= j)

(* The delimiter found most often outside quotes in the first line; the    *)
(* first of the three when they tie.                                       *)
detectDelimiter(line) ==
  LET quotes(i) == Cardinality({j \in 1 .. i - 1 : line[j] = QUOTE})
      count(d) == Cardinality({i \in DOMAIN line : line[i] = d /\ quotes(i) % 2 = 0})
      more(d, e) == count(d) > count(e)
  IN IF more(TAB, COMMA) /\ more(TAB, SEMI) THEN TAB
     ELSE IF more(SEMI, COMMA) THEN SEMI ELSE COMMA

(* The loop of parseCsv: what one character does to its variables.  skip   *)
(* is the i++ that passes over the second quote of a pair.                 *)
Scan(s, ch, next, delim) ==
  LET cellEnds == [s EXCEPT !.field = << >>, !.row = Append(s.row, s.field)] IN
  CASE s.skip -> [s EXCEPT !.skip = FALSE]
    [] ~s.skip /\ s.inQ /\ ch = QUOTE /\ next = QUOTE ->
         [s EXCEPT !.field = Append(@, QUOTE), !.skip = TRUE]
    [] ~s.skip /\ s.inQ /\ ch = QUOTE /\ next # QUOTE -> [s EXCEPT !.inQ = FALSE]
    [] ~s.skip /\ s.inQ /\ ch # QUOTE -> [s EXCEPT !.field = Append(@, ch)]
    [] ~s.skip /\ ~s.inQ /\ ch = QUOTE -> [s EXCEPT !.inQ = TRUE]
    [] ~s.skip /\ ~s.inQ /\ ch = delim -> cellEnds
    [] ~s.skip /\ ~s.inQ /\ ch = LF ->
         [cellEnds EXCEPT !.row = << >>, !.rows = Append(s.rows, Append(s.row, s.field))]
    [] ~s.skip /\ ~s.inQ /\ ch \notin {QUOTE, delim, LF, CR} -> [s EXCEPT !.field = Append(@, ch)]
    [] OTHER -> s

parseRows(text, delim) ==
  LET start == [field |-> << >>, row |-> << >>, rows |-> << >>, inQ |-> FALSE, skip |-> FALSE]
      after[i \in 0 .. Len(text)] ==
        IF i = 0 THEN start
        ELSE Scan(after[i - 1], text[i], IF i < Len(text) THEN text[i + 1] ELSE LF, delim)
      end == after[Len(text)]
  IN IF end.field # << >> \/ end.row # << >>
       THEN Append(end.rows, Append(end.row, end.field)) ELSE end.rows

NonEmpty(rows) ==
  LET kept[i \in 0 .. Len(rows)] ==
        IF i = 0 THEN << >>
        ELSE IF \A j \in DOMAIN rows[i] : IsBlank(rows[i][j]) THEN kept[i - 1]
        ELSE Append(kept[i - 1], rows[i])
  IN  kept[Len(rows)]

(* The rows below the headers, once blank rows are dropped. *)
Headed(rows) ==
  IF rows = << >> THEN [headers |-> << >>, rows |-> << >>]
  ELSE [headers |-> [j \in DOMAIN rows[1] |-> Trim(rows[1][j])], rows |-> Tail(rows)]

parseCsv(text) ==
  LET body == IF text # << >> /\ text[1] = BOM THEN Tail(text) ELSE text
      ends == {i \in DOMAIN body : body[i] = LF}
      line == IF ends = {} THEN body
              ELSE SubSeq(body, 1, (CHOOSE i \in ends : \A j \in ends : i <= j) - 1)
  IN Headed(NonEmpty(parseRows(body, detectDelimiter(line))))

-----------------------------------------------------------------------------
(* Decoding. *)
BadContinuations(b) ==
  CASE b \in 194 .. 223 -> 1 [] b \in 224 .. 239 -> 2 [] b \in 241 .. 244 -> 3 [] OTHER -> -1

(* How many bytes must follow the first byte of a character. *)
Continuations(b) ==
  CASE b <= 127 -> 0 [] b \in 194 .. 223 -> 1 [] b \in 224 .. 239 -> 2
    [] b \in 240 .. 244 -> 3 [] OTHER -> -1

isValidUtf8(buf) ==
  LET valid[i \in 1 .. Len(buf) + 1] ==
        LET n == Continuations(buf[i]) IN
        \/ i > Len(buf)
        \/ /\ n >= 0 /\ i + n <= Len(buf)
           /\ \A k \in 1 .. n : buf[i + k] \div 64 = 2
           /\ valid[i + n + 1]
  IN valid[1]

(* A byte order mark decides; else a text that is not UTF-8 is Latin-1. *)
decodeBytes(buf) ==
  IF IsPrefix(<<239, 187, 191>>, buf) \/ isValidUtf8(buf) THEN "utf-8" ELSE "latin1"

-----------------------------------------------------------------------------
(* What the encoding of one character is, from its definition: the value   *)
(* is not one that fewer bytes can hold, nor a surrogate, nor too large.   *)
Low(b) == b % 64
Leads(bs, first) == bs[1] \in first /\ \A i \in 2 .. Len(bs) : bs[i] \in 128 .. 191
OfTwo(bs) == (bs[1] % 32) * 64 + Low(bs[2])
OfThree(bs) == (bs[1] % 16) * 4096 + Low(bs[2]) * 64 + Low(bs[3])
OfFour(bs) == (bs[1] % 8) * 262144 + Low(bs[2]) * 4096 + Low(bs[3]) * 64 + Low(bs[4])

Character(bs) ==
  \/ Len(bs) = 1 /\ bs[1] <= 127
  \/ Len(bs) = 2 /\ Leads(bs, 192 .. 223) /\ OfTwo(bs) >= 128
  \/ Len(bs) = 3 /\ Leads(bs, 224 .. 239) /\ OfThree(bs) >= 2048 /\ OfThree(bs) \notin 55296 .. 57343
  \/ Len(bs) = 4 /\ Leads(bs, 240 .. 247) /\ OfFour(bs) >= 65536 /\ OfFour(bs) <= 1114111

WellFormed(buf) ==
  LET cut[i \in 1 .. Len(buf) + 1] ==
        \/ i = Len(buf) + 1
        \/ \E n \in 1 .. 4 : /\ i + n <= Len(buf) + 1
                             /\ Character(SubSeq(buf, i, i + n - 1))
                             /\ cut[i + n]
  IN cut[1]
=============================================================================
