-------------------------------- MODULE Posts --------------------------------
(***************************************************************************)
(* Reading a posted form: parse_key_eq_val and percent_unescape            *)
(* (parse_key_eq_val.c).  A message is a sequence of symbols: a character  *)
(* as it is, or one written as % and two digits.  One iteration of the     *)
(* parser's loop is one action.  Cookies, which are not unescaped and are  *)
(* separated by semicolons, are left out.                                  *)
(***************************************************************************)
EXTENDS SequencesExt

CONSTANTS
    Null,   \* no post data
    Letters \* characters that stand for themselves, "1" for the digits

\* The characters that the parser knows; "nul" ends a string of C, and no text
\* with "ff" is UTF-8.
Special == {" ", "=", "&", "+", "%", "nul", "ff"}

ASSUME PostConstants == "1" \in Letters /\ Letters \cap Special = {}

Raw(char) == [escaped |-> FALSE, char |-> char]
Esc(char) == [escaped |-> TRUE, char |-> char]

Digits == [nul |-> <<"0", "0">>, ff |-> <<"F", "F">>]
          @@ ("=" :> <<"3", "D">> @@ "&" :> <<"2", "6">> @@ "+" :> <<"2", "B">>
              @@ "%" :> <<"2", "5">> @@ "," :> <<"2", "C">> @@ "\"" :> <<"2", "2">>
              @@ "'" :> <<"2", "7">> @@ "\\" :> <<"5", "C">> @@ "{" :> <<"7", "B">> @@ "}" :> <<"7", "D">>
              @@ "[" :> <<"5", "B">> @@ "]" :> <<"5", "D">>)

VARIABLES
    message,    \* history: the symbols read
    state,      \* searchstate: nextkey, inkey, nextval, inval, parse_error
    key,        \* akey, up to the character read
    post        \* pt: for each key, unescaped, its value, not yet unescaped

reading == <<message, state, key, post>>

ReadNothing ==
    message = <<>> /\ state = "nextkey" /\ key = <<>> /\ post = [k \in {} |-> <<>>]

-----------------------------------------------------------------------------
(* percent_unescape *)

\* Mutant: a plus sign is left as it is.
PlusStays(symbol) == symbol.char

Converted(symbol) == IF symbol = Raw("+") THEN " " ELSE symbol.char

Written(symbol) ==
    IF symbol.escaped THEN <<"%">> \o Digits[symbol.char] ELSE <<symbol.char>>

\* The first of the symbols, from a position on, that is in S; or the end.
FirstOf(symbols, from, S) ==
    CHOOSE k \in from .. Len(symbols) + 1 :
        /\ k = Len(symbols) + 1 \/ symbols[k] \in S
        /\ \A j \in from .. k - 1 : symbols[j] \notin S

\* A % without its digits stops the conversion, which is done in place, so that
\* the characters not yet written over follow what is converted; at the end
\* it is dropped.  An escaped nul ends the text.
Unescape(symbols) ==
    LET stop == FirstOf(symbols, 1, {Raw("%")})
        buffer == [k \in 1 .. stop - 1 |-> Converted(symbols[k])]
                  \o IF stop >= Len(symbols) THEN <<>>
                     ELSE LET all == FlattenSeq([k \in DOMAIN symbols |-> Written(symbols[k])])
                          IN  SubSeq(all, stop, Len(all))
    IN  SubSeq(buffer, 1, FirstOf(buffer, 1, {"nul"}) - 1)

-----------------------------------------------------------------------------
(* parse_key_eq_val *)

Legal(symbol) ==
    symbol.escaped \/ symbol.char \in Letters \cup {"+", "%"}

Space == Raw(" ")
Equals == Raw("=")
Separator == Raw("&")

Goto(next) == state' = next

Added(name, value) ==
    [k \in DOMAIN post \cup {name} |-> IF k = name THEN value ELSE post[k]]

\* Mutant: a key that comes again takes the place of the first.
Replace(value) ==
    /\ post' = Added(Unescape(key), value)
    /\ Goto(IF value = <<>> THEN "nextkey" ELSE "inval")

\* The key is unescaped and added; a duplicate is an error.
AddEntry(value) ==
    IF Unescape(key) \in DOMAIN post THEN Goto("parse_error") /\ UNCHANGED post
    ELSE /\ post' = Added(Unescape(key), value)
         /\ Goto(IF value = <<>> THEN "nextkey" ELSE "inval")

NextKey(symbol) ==
    /\ state = "nextkey"
    /\ IF Legal(symbol) THEN Goto("inkey") /\ key' = <<symbol>>
       ELSE /\ Goto(IF symbol = Space THEN "nextkey" ELSE "parse_error")
            /\ UNCHANGED key
    /\ UNCHANGED post

InKey(symbol) ==
    /\ state = "inkey"
    /\ IF symbol = Equals THEN Goto("nextval") /\ UNCHANGED key
       ELSE /\ Goto(IF Legal(symbol) THEN "inkey" ELSE "parse_error")
            /\ key' = Append(key, symbol)
    /\ UNCHANGED post

NextVal(symbol) ==
    /\ state = "nextval"
    /\ \/ Legal(symbol) /\ AddEntry(<<symbol>>)
       \/ symbol = Separator /\ AddEntry(<<>>)
       \/ /\ ~Legal(symbol) /\ symbol # Separator
          /\ Goto(IF symbol = Space THEN "nextval" ELSE "parse_error")
          /\ UNCHANGED post
    /\ UNCHANGED key

InVal(symbol) ==
    /\ state = "inval"
    /\ IF Legal(symbol)
       THEN post' = [post EXCEPT ![Unescape(key)] = Append(@, symbol)] /\ Goto("inval")
       ELSE /\ Goto(IF symbol = Separator THEN "nextkey" ELSE "parse_error")
            /\ UNCHANGED post
    /\ UNCHANGED key

InError == state = "parse_error" /\ UNCHANGED <<state, key, post>>

Read(symbol) ==
    /\ \/ NextKey(symbol) \/ InKey(symbol) \/ NextVal(symbol) \/ InVal(symbol) \/ InError
    /\ message' = Append(message, symbol)

Utf8(text) == "ff" \notin Range(text)

\* At the end of the message: a key without its = is dropped, one without a
\* value has the empty one; then the values are unescaped.
PostData ==
    LET last == Unescape(key)
        all == IF state = "nextval" THEN Added(last, <<>>) ELSE post
        texts == [k \in DOMAIN all |-> Unescape(all[k])]
    IN  IF \/ state = "parse_error"
           \/ state = "nextval" /\ last \in DOMAIN post
           \/ \E k \in DOMAIN texts : ~Utf8(k) \/ ~Utf8(texts[k])
        THEN Null ELSE texts

-----------------------------------------------------------------------------
(* What a message means *)

\* A field begins at the start and after each separator, and goes to the next.
Begins == {1} \cup {k + 1 : k \in {j \in DOMAIN message : message[j] = Separator}}
End(begin) == FirstOf(message, begin, {Separator})
Field(begin) == SubSeq(message, begin, End(begin) - 1)
IsLast(begin) == End(begin) > Len(message)

\* Legal symbols, with spaces before them.
Word(symbols) ==
    SubSeq(symbols, FirstOf(symbols, 1, Range(symbols) \ {Space}), Len(symbols))
IsWord(symbols) == \A k \in DOMAIN Word(symbols) : Legal(Word(symbols)[k])

Sign(field) == FirstOf(field, 1, {Equals})
KeyOf(field) == SubSeq(field, 1, Sign(field) - 1)
ValueOf(field) == SubSeq(field, Sign(field) + 1, Len(field))

IsField(field) ==
    /\ Sign(field) <= Len(field)
    /\ IsWord(KeyOf(field)) /\ Word(KeyOf(field)) # <<>>
    /\ IsWord(ValueOf(field))

Complete    == {begin \in Begins : IsField(Field(begin))}
Name(begin) == Unescape(Word(KeyOf(Field(begin))))
Text(begin) == Unescape(Word(ValueOf(Field(begin))))

Meaning ==
    IF \/ \E b \in Begins \ Complete : ~(IsLast(b) /\ IsWord(Field(b)))
       \/ \E b, c \in Complete : b # c /\ Name(b) = Name(c)
       \/ \E b \in Complete : ~Utf8(Name(b)) \/ ~Utf8(Text(b))
    THEN Null
    ELSE [name \in {Name(b) : b \in Complete} |->
            Text(CHOOSE b \in Complete : Name(b) = name)]

\* After every symbol: what parse_key_eq_val makes of the message is what its
\* fields say, each apart from the others (153-330); a key is taken once, and
\* only a form that is complete, but for a last key, is taken at all.
ReadAsWritten == PostData = Meaning
=============================================================================
