----------------------------- MODULE MCPrompts -----------------------------
(* Columns for TLC: texts with every character that is special to a form or *)
(* an array, each prompt, and each source of options.                       *)
EXTENDS Prompts

MCLetters == {"x", "X", "t", "T", "f", "yes", "no", "NULL", "1"}

MCCharacters == MCLetters \cup Marks \cup {"&", "=", "+", "%", "0", ":"}

Base == [name |-> <<"x">>, type |-> "text", nullable |-> FALSE, prompt |-> "input_text",
         options |-> <<>>, labels |-> <<>>, fkey |-> <<>>, value |-> Null]

Signs == {"x", "X", " ", "&", "=", "+", "%", ",", "\"", "\\", "{"}

TextColumns ==
    { [Base EXCEPT !.value = v] : v \in {Null} \cup BoundedSeq(Signs, 2) }
    \cup { [Base EXCEPT !.prompt = p, !.value = v] :
            p \in {"textarea", "input_hidden", "input_date", "input_checkbox", "button", "unknown"},
            v \in {Null, <<"x">>} }

Small == <<"x">>
Capital == <<"X">>
Two == <<"x", ",", "x">>

OptionLists == { <<"{", "x", ",", " ", "X", "}">>, <<"{", "}">>, <<"{", "x", ",", "}">>,
                 <<"{", "\"", "x", ",", "x", "\"", ",", "x">> }

OptionColumns ==
    { [Base EXCEPT !.prompt = p, !.options = o, !.labels = l, !.nullable = n, !.fkey = k, !.value = v] :
        p \in {"select_options", "select_fkey", "input_radio", "input_datalist"},
        o \in {<<>>} \cup OptionLists,
        l \in {<<>>, <<"{", "x", "}">>},
        n \in BOOLEAN, k \in {<<>>, <<Small, Two>>},
        v \in {Null, Small, Capital, Two, <<" ", "x">>, <<" ">>} }

BooleanColumns ==
    { [Base EXCEPT !.type = "boolean", !.prompt = p, !.nullable = n, !.value = v] :
        p \in {"input_text", "select_options", "input_radio"},
        n \in BOOLEAN, v \in {Null, <<"t">>, <<"f">>} }
    \cup { [Base EXCEPT !.type = "boolean", !.prompt = p, !.options = o, !.value = v] :
        p \in {"select_options", "input_radio"},
        o \in { <<"{", "no", ",", "T", "}">>, <<"{", "yes", ",", "\"", "\"", "}">>,
                <<"{", "yes", ",", "no", ",", "x", "}">> },
        v \in {Null, <<"t">>, <<"f">>} }

Elements ==
    {Null, <<"NULL">>, Two, <<"'">>, <<"'", "x">>, <<"'", " ">>, <<"x", "'">>, <<"{", "x", "}">>}
    \cup BoundedSeq({"x", " ", ",", "\"", "\\", "{", "}"}, 2)

ArrayColumns ==
    { [Base EXCEPT !.type = "array", !.prompt = "text_array", !.value = v] :
        v \in {Null} \cup BoundedSeq(Elements, 2) }
    \cup { [Base EXCEPT !.type = "nested", !.prompt = "text_array",
                        !.value = v] :
        v \in {Null, <<"{", "{", "x", "}", "}">>, <<"[", "0", ":", "0", "]", "=", "{", "x", "}">>} }

MCColumns == TextColumns \cup OptionColumns \cup BooleanColumns \cup ArrayColumns

MCOthers ==
    {Raw(char) : char \in {"x", "=", "&", "+", " ", "!", "%"}} \cup {Esc(char) : char \in {"=", "nul", "ff"}}

\* Bounds: other clients' messages do not depend on the column, and long ones
\* are not gone on with after an error.
OtherMessages ==
    at = "other" => column = Base /\ (state # "parse_error" \/ Len(message) < 5)
=============================================================================
