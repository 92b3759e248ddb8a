------------------------------- MODULE Prompts -------------------------------
(***************************************************************************)
(* One field of a form, there and back: the value of a column is shown by  *)
(* a prompt (prompt_rule.c), the user changes nothing, the browser posts   *)
(* the form, it is read (the module Posts), and perform_post_action        *)
(* (opentable.c) makes a parameter of it for an UPDATE.  Messages of       *)
(* clients that are no browsers are read as well.  Tables of handlers, the *)
(* form tag and the checks of check_postdata are in Pages and Forms.       *)
(***************************************************************************)
EXTENDS Posts

CONSTANTS
    Characters, \* what names and values are made of
    Columns,    \* what may be edited: a column, its prompt rule and a value
    Nested,     \* the value of an array put together with braces within
    Others,     \* symbols that other clients write
    MaxMessage  \* bound: length of their messages

Marks == {" ", ",", "{", "}", "[", "]", "\"", "'", "\\", "yes", "no", "NULL"}

\* No text of a database has a nul in it, and all are UTF-8.
ASSUME CharactersAssumption ==
    Letters \cup Marks \subseteq Characters /\ {"nul", "ff"} \cap Characters = {}

\* NULL is no list of texts, not even the empty one; nor is an array of arrays.
ASSUME NullAssumption ==
    Null \notin Seq(Seq(Characters)) /\ Nested \notin Seq(Seq(Characters) \cup {Null}) \cup {Null}

\* What PostgreSQL has of a column: a name, the texts of arrays of options and
\* labels, the keys of another table, and a text, an array of texts and
\* Nulls, or Null.  An array of arrays, or one with a lower bound that is not 1,
\* is of type "nested", and a text: array_out writes {{ or [ first.  Any array
\* with another prompt than text_array is posted as array_out wrote it: a text.
ASSUME ColumnsAssumption == \A c \in Columns :
    /\ {c.name, c.options, c.labels} \subseteq Seq(Characters) /\ c.name # <<>>
    /\ c.fkey \in Seq(Seq(Characters))
    /\ \/ c.value = Null
       \/ c.type # "array" /\ c.value \in Seq(Characters)
       \/ c.type = "array" /\ c.value \in Seq(Seq(Characters) \cup {Null})
    /\ c.type = "array" => c.prompt = "text_array"
    /\ c.type = "boolean" => c.value \in {Null, <<"t">>, <<"f">>}
    /\ c.type = "nested" /\ c.value # Null =>
        /\ c.value # <<>>
        /\ c.value[1] = "[" \/ (Len(c.value) > 1 /\ c.value[1] = "{" /\ c.value[2] = "{")

Arrays == INSTANCE PgArrays

VARIABLES
    column,     \* what is edited
    at,         \* row, form, other message, error, broken, refused, saved
    shown,      \* the controls of the form: name and text of each
    saved       \* the value that the database has

field == <<column, at, shown, saved>>
vars  == <<reading, field>>

-----------------------------------------------------------------------------
(* The prompt *)

\* get_value and PQgetvalue: NULL is as an empty text.
Shown == IF column.value = Null THEN <<>>
         ELSE IF column.type = "array" THEN Arrays!ArrayOut(column.value) ELSE column.value

\* fetch_options: of the rule, the labels of the enum, yes and no, the keys of
\* the foreign table; of the first of them there is.
Options ==
    CASE column.options # <<>>    -> Arrays!ParsePgArray(column.options)
      [] column.labels # <<>>     -> Arrays!ParsePgArray(column.labels)
      [] column.type = "boolean"  -> <<<<"yes">>, <<"no">>>>
      [] column.fkey # <<>> /\ column.prompt = "select_fkey" -> column.fkey
      [] OTHER                    -> Null

FoldCase(text) ==
    [k \in DOMAIN text |-> CASE text[k] = "X" -> "x" [] text[k] = "T" -> "t" [] OTHER -> text[k]]

SameButCase(a, b) == FoldCase(a) = FoldCase(b)

\* "yes" in any case, "t" in lower case only.
Truthishness(text) == text \in {<<"t">>, <<"yes">>}

Matches(option) ==
    \/ SameButCase(Shown, option)
    \/ column.type = "boolean" /\ Truthishness(Shown) = Truthishness(option)

Option(text, selected) == [text |-> text, selected |-> selected]

Marked(options) == [k \in DOMAIN options |-> Option(options[k], Matches(options[k]))]

\* The text of an option that has no value attribute, as a browser posts it:
\* without spaces at its ends, or several in a row.
Stripped(text) ==
    FlattenSeq([k \in DOMAIN text |->
        IF \/ text[k] # " "
           \/ k > 1 /\ text[k - 1] # " " /\ \E j \in k .. Len(text) : text[j] # " "
        THEN <<text[k]>> ELSE <<>>])

ShownOption == <<Option(Stripped(Shown), TRUE)>>

\* Mutant: the value is not added.
NothingToAdd(options) == <<>>

\* The value is added if no option is like it.
CurrentValue(options) ==
    IF \E k \in DOMAIN options : Matches(options[k]) THEN <<>> ELSE ShownOption

\* add_select_options.
SelectOptions(options) ==
    (IF column.nullable THEN <<Option(<<>>, Shown = <<>>)>> ELSE <<>>)
    \o IF options # Null THEN Marked(options) \o CurrentValue(options)
       ELSE IF Shown # <<>> THEN ShownOption ELSE <<>>

Control(text) == <<[name |-> column.name, text |-> text]>>

Selected(options) == {k \in DOMAIN options : options[k].selected}

\* What a browser posts of a select: the last option selected, or the first.
Select(options) ==
    IF options = <<>> THEN <<>>
    ELSE Control(options[Max({1} \cup Selected(options))].text)

\* add_input_radio: of the buttons, the last that is checked is posted.
Radio(options) ==
    IF options = Null \/ Selected(Marked(options)) = {} THEN <<>>
    ELSE Control(options[Max(Selected(Marked(options)))])

\* An index, as so many digits: all that matters is that they differ.
Numeral(k) == [j \in 1 .. k |-> "1"]
ItemName(k) == column.name \o <<"[">> \o Numeral(k) \o <<"]">>

\* add_text_array: an input for every element.
TextArray(elements) ==
    IF elements = Null THEN <<>>
    ELSE [k \in DOMAIN elements |-> [name |-> ItemName(k), text |-> elements[k]]]

Texts == {"input_text", "input_hidden", "input_date", "textarea"}
NotPosted == {"input_checkbox", "button"}

\* add_select_fkey adds a text input for a column without a foreign key.
Selects == {"select_options"} \cup IF column.fkey = <<>> THEN {} ELSE {"select_fkey"}

Show(controls) == at' = "form" /\ shown' = controls

\* add_prompt: the prompt type names the function that adds the prompt; one it
\* does not know is an error page, and add_input_datalist follows the list of
\* options without a look at it.  readonly, as of a primary key, is posted.
AddPrompt ==
    /\ at = "row"
    /\ \E options \in {Options} :
        \/ column.prompt \in Texts /\ Show(Control(Shown))
        \/ column.prompt \in Selects /\ Show(Select(SelectOptions(options)))
        \/ column.prompt = "select_fkey" /\ column.fkey = <<>> /\ Show(Control(Shown))
        \/ column.prompt = "input_radio" /\ Show(Radio(options))
        \/ column.prompt = "text_array" /\ Show(TextArray(Arrays!ParsePgArray(Shown)))
        \/ column.prompt \in NotPosted /\ Show(<<>>)
        \/ column.prompt = "input_datalist" /\ options # Null /\ Show(Control(Shown))
        \/ column.prompt = "input_datalist" /\ options = Null /\ at' = "broken" /\ UNCHANGED shown
        \/ column.prompt = "unknown" /\ at' = "error" /\ UNCHANGED shown
    /\ UNCHANGED <<reading, column, saved>>

-----------------------------------------------------------------------------
(* The post *)

\* A browser writes what is neither a letter nor a space as % and digits.
Encoded(char) ==
    IF char \in Letters THEN Raw(char)
    ELSE IF char = " " THEN Raw("+") ELSE Esc(char)

Encoding(text) == [k \in DOMAIN text |-> Encoded(text[k])]

Posted ==
    FlattenSeq([n \in DOMAIN shown |->
        (IF n = 1 THEN <<>> ELSE <<Separator>>)
        \o Encoding(shown[n].name) \o <<Equals>> \o Encoding(shown[n].text)])

\* The next symbol of the browser's message, or of somebody else's.
ReadForm ==
    /\ at = "form" /\ Len(message) < Len(Posted)
    /\ Read(Posted[Len(message) + 1])
    /\ UNCHANGED field

ReadOther ==
    /\ at \in {"row", "other"} /\ Len(message) < MaxMessage
    /\ \E symbol \in Others : Read(symbol)
    /\ at' = "other"
    /\ UNCHANGED <<column, shown, saved>>

-----------------------------------------------------------------------------
(* The parameter *)

Indexed ==
    {k \in 1 .. Cardinality(DOMAIN PostData) : \A j \in 1 .. k : ItemName(j) \in DOMAIN PostData}

\* What the name of the field has; a text_array, which is not posted by its
\* name, is put together of its elements.
Parameter ==
    IF column.name \in DOMAIN PostData THEN PostData[column.name]
    ELSE IF column.prompt = "text_array"
    THEN Arrays!BuildPgArray([k \in 1 .. Cardinality(Indexed) |-> PostData[ItemName(k)]])
    ELSE Null

\* PostgreSQL takes t, yes, f and no for booleans, in any case, and refuses others.
BooleanIn(text) ==
    CASE FoldCase(text) \in {<<"t">>, <<"yes">>} -> <<"t">>
      [] FoldCase(text) \in {<<"f">>, <<"no">>}  -> <<"f">>
      [] OTHER                                  -> Null

\* What the column takes it for.
Stored(text) ==
    CASE column.type = "array"   -> Arrays!ArrayIn(text)
      [] column.type = "boolean" -> BooleanIn(text)
      [] OTHER                   -> text

NullIfEmpty(text) == IF text = <<>> THEN Null ELSE Stored(text)

\* perform_post_action: a field is missing, an empty one is NULL, PostgreSQL
\* refuses what is no array or boolean, or the value is stored.  An array of
\* arrays is refused too if these do not match or have text around them.
PerformPostAction ==
    /\ at = "form" /\ Len(message) = Len(Posted)
    /\ \/ /\ \/ PostData = Null \/ Parameter = Null
             \/ Parameter # <<>> /\ Stored(Parameter) \in {Null, Nested}
          /\ at' = "refused" /\ UNCHANGED saved
       \/ /\ PostData # Null /\ Parameter # Null
          /\ Parameter # <<>> => Stored(Parameter) # Null
          /\ at' = "saved" /\ saved' = NullIfEmpty(Parameter)
    /\ UNCHANGED <<reading, column, shown>>

Init ==
    /\ ReadNothing
    /\ column \in Columns
    /\ at = "row" /\ shown = <<>>
    /\ saved = column.value

Next == AddPrompt \/ ReadForm \/ ReadOther \/ PerformPostAction

Spec == Init /\ [][Next]_vars

-----------------------------------------------------------------------------
(* Properties *)

\* The form comes to perform_post_action as the page showed it, whatever its
\* texts are: name by name, no control lost, and none twice.
FormComesBack ==
    at = "form" /\ Len(message) = Len(Posted) =>
        PostData = [name \in {shown[n].name : n \in DOMAIN shown} |->
                        (CHOOSE control \in Range(shown) : control.name = name).text]

\* Values that the forms cannot keep apart from others: an empty text or array
\* from NULL, no boolean from no (720, 857) or no from an option that is empty,
\* texts by their case (709, 848), and by their spaces if no option is like them
\* (688, 735); and from NULL, what parse_pg_array refuses: an array of arrays or
\* with bounds, and an element that begins with an apostrophe and is not quoted.
Merged ==
    \/ column.value = <<>> /\ saved = Null
    \/ column.type = "boolean" /\ {column.value, saved} = {Null, <<"f">>}
    \/ column.type = "nested" /\ saved = Null
    \/ /\ column.type = "array" /\ column.value # Null /\ saved = Null
       /\ \E element \in Range(column.value) \ {Null} :
             Arrays!Plain(element) /\ element[1] = "'"
    \/ column.prompt \in Selects /\ saved = NullIfEmpty(Stripped(Shown))
    \/ column.type # "array" /\ Options # Null /\ saved # Null /\ SameButCase(Shown, saved)

\* A boolean becomes true by an option that PostgreSQL takes for true and
\* truthishness does not (303-310): T and the like, one letter in upper case.
Misread ==
    /\ column.type = "boolean" /\ saved = <<"t">>
    /\ Options # Null /\ <<"T">> \in Range(Options)

\* Elements that build_pgarray_from_post does not put back, since it does not
\* quote them: the empty one, the text NULL, one with a comma, or with spaces at
\* its ends.  For one with a brace see Regrouped.
Unkept(element) ==
    \/ element \in {<<>>, <<"NULL">>}
    \/ element # Null /\ "," \in Range(element)
    \/ element # Null /\ " " \in {element[1], Last(element)}

\* An array that has a brace in an element becomes an array of arrays, or the
\* empty array, if its braces match (1052-1072): {x}, shown as {"{x}"}, is
\* posted as {{x}}.
Regrouped ==
    /\ column.type = "array" /\ column.value # Null /\ saved = Nested
    /\ \E element \in Range(column.value) \ {Null} : {"{", "}"} \cap Range(element) # {}

\* A form that is opened and submitted without a change leaves the value as it
\* was, with any prompt, options and text there may be; except as said above.
EditWithoutChange ==
    at = "saved" =>
        \/ saved = column.value \/ Merged \/ Misread \/ Regrouped
        \/ /\ column.type = "array" /\ column.value # Null
           /\ \E k \in DOMAIN column.value : Unkept(column.value[k])
=============================================================================
