------------------------------ MODULE PgArrays ------------------------------
(***************************************************************************)
(* Arrays of PostgreSQL as text: parse_pg_array (parse_pg_array.c), which  *)
(* reads the options of a prompt and the elements of an array, and         *)
(* build_pgarray_from_post (opentable.c), which writes an array again from *)
(* the elements posted.  A text is a sequence of characters.               *)
(***************************************************************************)
EXTENDS SequencesExt

CONSTANTS
    Null,   \* no text, no list of elements, no element
    Nested  \* what PostgreSQL makes of braces within an array's

-----------------------------------------------------------------------------
(* parse_pg_array *)

\* pg_legal_char and isspace: how the parser sees a character.  The blank stands
\* for all white space, the apostrophe for other control characters too.
Class(char) ==
    CASE char = "{"  -> "open"
      [] char = "}"  -> "close"
      [] char = ","  -> "comma"
      [] char = " "  -> "space"
      [] char = "\"" -> "quote"
      [] char = "'"  -> "other"
      [] OTHER       -> "legal"

\* Where a character leads.  A backslash is a legal character here, and not
\* the error that the comment's table (68) has it for.  The states escapev,
\* which nothing enters, and error are left out.
Table ==
    [begin     |-> [open |-> "firstval", space |-> "begin"],
     firstval  |-> [legal |-> "inval", quote |-> "inquote", close |-> "finish", space |-> "firstval"],
     findval   |-> [legal |-> "inval", quote |-> "inquote", space |-> "findval"],
     inval     |-> [legal |-> "inval", quote |-> "inval", other |-> "inval", space |-> "findcomma",
                    comma |-> "findval", close |-> "finish"],
     findcomma |-> [comma |-> "findval", close |-> "finish", space |-> "findcomma"],
     finish    |-> [space |-> "finish"],
     error     |-> <<>>]

NextState(state, char) ==
    CASE state = "inquote" -> CASE char = "\\" -> "escapeq"
                                [] char = "\"" -> "findcomma"
                                [] OTHER -> "inquote"
      [] state = "escapeq" -> "inquote"
      [] OTHER -> IF Class(char) \in DOMAIN Table[state] THEN Table[state][Class(char)] ELSE "error"

Starting == {"firstval", "findval"}
Inside   == {"inval", "inquote", "escapeq"}

\* One character: an element begins, at it or after its quote; or goes on,
\* every backslash kept; or neither.
Enter(parsed, state, char) ==
    [state |-> state,
     elements |->
        IF parsed.state \in Starting /\ state = "inval"
        THEN Append(parsed.elements, <<char>>)
        ELSE IF parsed.state \in Starting /\ state = "inquote"
        THEN Append(parsed.elements, <<>>)
        ELSE IF parsed.state \in Inside /\ state \in Inside
        THEN [parsed.elements EXCEPT ![Len(parsed.elements)] = Append(@, char)]
        ELSE parsed.elements]

ParseChar(parsed, char) == Enter(parsed, NextState(parsed.state, char), char)

Parsed(text) ==
    LET parsed[n \in 0 .. Len(text)] ==
            IF n = 0 THEN [state |-> "begin", elements |-> <<>>]
            ELSE ParseChar(parsed[n - 1], text[n])
    IN  parsed[Len(text)]

\* An array that breaks off, within an element or before its brace, is taken.
ParsePgArray(text) ==
    IF text = <<>> \/ Parsed(text).state = "error" THEN Null ELSE Parsed(text).elements

-----------------------------------------------------------------------------
(* build_pgarray_from_post *)

Joined(texts) ==
    FlattenSeq([k \in DOMAIN texts |-> IF k = 1 THEN texts[k] ELSE <<",">> \o texts[k]])

\* The elements posted, base[0], base[1]... as far as there are any: the array
\* ends at the first that is empty, and its elements are not quoted.
BuildPgArray(posted) ==
    LET Filled(n) == \A k \in 1 .. n : posted[k] # <<>>
        length == CHOOSE n \in 0 .. Len(posted) :
                    Filled(n) /\ (n < Len(posted) => posted[n + 1] = <<>>)
    IN  IF posted = <<>> THEN <<>>
        ELSE <<"{">> \o Joined(SubSeq(posted, 1, length)) \o <<"}">>

-----------------------------------------------------------------------------
(* PostgreSQL, as the program's use of it needs *)

Escaped(element) ==
    FlattenSeq([k \in DOMAIN element |->
        IF element[k] \in {"\"", "\\"} THEN <<"\\", element[k]>> ELSE <<element[k]>>])

Plain(element) == element \notin {<<>>, <<"NULL">>} /\ \A k \in DOMAIN element :
                    element[k] \notin {"{", "}", ",", " ", "\"", "\\"}

Out(element) == IF element = Null THEN <<"NULL">>
                ELSE IF Plain(element) THEN element
                ELSE <<"\"">> \o Escaped(element) \o <<"\"">>

\* array_out: an element is quoted if it has to be.
ArrayOut(elements) ==
    <<"{">> \o Joined([k \in DOMAIN elements |-> Out(elements[k])]) \o <<"}">>

\* array_in of the elements as they are posted, without quotes around them: a
\* backslash protects, a comma separates, spaces at either end are dropped, and
\* braces are the ends of arrays within the array.  A quote is refused: no array
\* that was shown has one that is not protected.
TakeChar(taken, char) ==
    CASE taken.state = "refused" -> taken
      [] taken.state = "taking" /\ (char = "\"" \/ (char = "}" /\ taken.depth = 0)) ->
            [taken EXCEPT !.state = "refused"]
      [] taken.state = "taking" /\ char = "{" ->
            [taken EXCEPT !.nested = TRUE, !.depth = @ + 1]
      [] taken.state = "taking" /\ char = "}" /\ taken.depth # 0 ->
            [taken EXCEPT !.depth = @ - 1]
      [] taken.state = "taking" /\ char = "\\" -> [taken EXCEPT !.state = "protecting"]
      [] taken.state = "taking" /\ char = "," ->
            [taken EXCEPT !.elements = Append(@, taken.last), !.last = <<>>, !.spaces = <<>>]
      [] taken.state = "taking" /\ char = " " ->
            [taken EXCEPT !.spaces = IF taken.last = <<>> THEN <<>> ELSE Append(@, char)]
      [] OTHER ->
            [taken EXCEPT !.state = "taking", !.last = Append(@ \o taken.spaces, char),
                          !.spaces = <<>>]

NothingTaken == [state |-> "taking", depth |-> 0, nested |-> FALSE,
                 elements |-> <<>>, last |-> <<>>, spaces |-> <<>>]

Taken(text) ==
    LET taken[n \in 0 .. Len(text)] ==
            IF n = 0 THEN NothingTaken ELSE TakeChar(taken[n - 1], text[n])
    IN  taken[Len(text)]

\* Of one empty element nothing is left; several are refused.  Braces that match
\* make it an array of arrays, or of none at all: Nested.
ArrayIn(text) ==
    LET end == Taken(SubSeq(text, 2, Len(text) - 1))
        read == Append(end.elements, end.last)
    IN  IF end.state # "taking" \/ end.depth # 0 THEN Null
        ELSE IF end.nested THEN Nested
        ELSE IF Len(read) > 1 /\ <<>> \in Range(read) THEN Null
        ELSE IF read = <<<<>>>> THEN <<>>
        ELSE [k \in DOMAIN read |-> IF read[k] = <<"NULL">> THEN Null ELSE read[k]]
=============================================================================
