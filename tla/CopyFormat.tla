------------------------------ MODULE CopyFormat ------------------------------
(***************************************************************************)
(* The text of a dumped row (src/lib/backup/pg-dump.ts): how a value of a  *)
(* text column and of an array column is written for COPY FROM STDIN, and, *)
(* as the reference it is checked against, how PostgreSQL reads such a     *)
(* line back.                                                              *)
(*                                                                         *)
(* A text is a sequence of characters, an array a sequence of texts and    *)
(* Nulls. The word NULL of an array literal is one symbol.                 *)
(***************************************************************************)
EXTENDS Naturals, Sequences, SequencesExt

CONSTANTS Null, Malformed   \* SQL NULL; what cannot be read back

Backslash == "\\"
Tab == "\t"
Newline == "\n"
Quote == "\""

-----------------------------------------------------------------------------
(* s.replace(/c/g, by) *)
Replaced(s, c, by) ==
    FlattenSeq([i \in 1..Len(s) |-> IF s[i] = c THEN by ELSE <<s[i]>>])

(* Mutant: the backslashes are doubled last, those of the escapes too. *)
MutBackslashLast(s) ==
    Replaced(Replaced(Replaced(s, Tab, <<Backslash, "t">>),
                      Newline, <<Backslash, "n">>),
             Backslash, <<Backslash, Backslash>>)

(* The four replacements of escapeCopyValue(); \r goes the way of \n. *)
EscapedText(s) ==
    Replaced(Replaced(Replaced(s, Backslash, <<Backslash, Backslash>>),
                      Tab, <<Backslash, "t">>),
             Newline, <<Backslash, "n">>)

(* formatPostgresArrayElement() *)
ArrayElement(e) ==
    IF e = Null THEN <<"NULL">>
    ELSE <<Quote>> \o Replaced(Replaced(e, Backslash, <<Backslash, Backslash>>),
                               Quote, <<Backslash, Quote>>)
         \o <<Quote>>

(* formatPostgresArrayLiteral(): the elements joined by commas. *)
ArrayLiteral(elements) ==
    LET joined == [i \in 1..Len(elements) |->
                     (IF i = 1 THEN <<>> ELSE <<",">>) \o ArrayElement(elements[i])]
    IN  <<"{">> \o FlattenSeq(joined) \o <<"}">>

NullField == <<Backslash, "N">>

(* escapeCopyValue(), by the type of the column: an array's literal is     *)
(* returned as it is.                                                      *)
TextField(s) == IF s = Null THEN NullField ELSE EscapedText(s)
ArrayField(a) == IF a = Null THEN NullField ELSE ArrayLiteral(a)

(* A line of generateDumpChunks(): a text column and an array column. The  *)
(* newline that ends it is left out.                                       *)
Line(value) == TextField(value.text) \o <<Tab>> \o ArrayField(value.tags)

-----------------------------------------------------------------------------
(* PostgreSQL. COPY splits at tabs, newlines end a row, a backslash is     *)
(* taken off with what it stands for.                                      *)
Unescaped(field) ==
    LET n == Len(field)
        stands(c) == CASE c = "t" -> Tab [] c = "n" -> Newline [] OTHER -> c
        from[i \in 1..(n + 2)] ==
            IF i > n THEN <<>>
            ELSE IF field[i] = Backslash /\ i < n
                 THEN <<stands(field[i + 1])>> \o from[i + 2]
                 ELSE <<field[i]>> \o from[i + 1]
    IN  from[1]

ReadText(field) == IF field = NullField THEN Null ELSE Unescaped(field)

(* The input function of an array type: quoted elements, with a backslash  *)
(* before any character taken as it is, or NULL, and commas between them.  *)
ParsedArray(s) ==
    LET n == Len(s)
        bad == [chars |-> <<>>, next |-> n + 2]
        (* the rest of a quoted element, and the place after its quote *)
        quoted[i \in 1..(n + 2)] ==
            IF i > n THEN bad
            ELSE IF s[i] = Quote THEN [chars |-> <<>>, next |-> i + 1]
            ELSE LET at == IF s[i] = Backslash THEN i + 1 ELSE i
                 IN  IF at > n THEN bad
                     ELSE [quoted[at + 1] EXCEPT !.chars = <<s[at]>> \o @]
        element(i) ==
            CASE i <= n /\ s[i] = Quote -> quoted[i + 1]
              [] i <= n /\ s[i] = "NULL" -> [chars |-> Null, next |-> i + 1]
              [] OTHER -> bad
        (* the elements from place i on, or Malformed *)
        elements[i \in 1..(n + 2)] ==
            LET e == element(i)
            IN  IF e.next > n THEN Malformed
                ELSE IF s[e.next] = "}" /\ e.next = n THEN <<e.chars>>
                ELSE IF s[e.next] = "," /\ elements[e.next + 1] # Malformed
                     THEN <<e.chars>> \o elements[e.next + 1]
                     ELSE Malformed
    IN  CASE s = <<"{", "}">> -> <<>>
          [] n > 2 /\ s[1] = "{" -> elements[2]
          [] OTHER -> Malformed

ReadArray(field) == IF field = NullField THEN Null ELSE ParsedArray(Unescaped(field))

(* A line read back: Malformed stops the COPY with an error. *)
ReadLine(line) ==
    LET tabs == {i \in 1..Len(line) : line[i] = Tab}
        at == CHOOSE i \in tabs : TRUE
        text == ReadText(SubSeq(line, 1, at - 1))
        tags == ReadArray(SubSeq(line, at + 1, Len(line)))
    IN  IF \/ Cardinality(tabs) # 1
           \/ \E i \in 1..Len(line) : line[i] = Newline
           \/ tags = Malformed
        THEN Malformed ELSE [text |-> text, tags |-> tags]

(* An array none of whose texts holds a character that is special to an    *)
(* array literal or to COPY.                                               *)
PlainArray(a) ==
    a # Null => \A i \in 1..Len(a) : a[i] # Null =>
        \A k \in 1..Len(a[i]) : a[i][k] \notin {Backslash, Tab, Newline, Quote}
=============================================================================
