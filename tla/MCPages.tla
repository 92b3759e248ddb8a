------------------------------ MODULE MCPages ------------------------------
(* Small instances of Pages for TLC: some forms of each handler, with a few *)
(* rows of qz.table_action, one of which other users change.                *)
EXTENDS Pages

VARIABLE form   \* the form: its handler, rows, and the row that changes

Form(h, rows, changing) == [handler |-> h, rows |-> rows, changing |-> changing]

Forms ==
    { Form("onetable",   {"list", "edit", "update"},      "update"),
      Form("onetable",   {"create", "insert", "list"},    "create"),
      Form("onetable",   {"delete", "edit"},              "edit"),
      Form("onetable",   {"view", "create", "attached"},  "view"),
      Form("simpleform", {"view", "action"},              "action"),
      Form("simpleform", {"view", "attached"},            "attached"),
      Form("callback",   {"attached"},                    "attached"),
      Form("menupage",   {"menu", "attached"},            "menu"),
      Form("fs",         {"get", "etag_value"},           "get"),
      Form("grid",       {"edit", "insert_row"},          "edit"),
      Form("grid",       {"save", "update_row"},          "update_row"),
      Form("grid",       {"save", "delete_row"},          "save") }

HasRow(a) == IF a \in form.rows THEN 1 ELSE Nothing

MCInit ==
    /\ form \in Forms
    /\ handler = form.handler
    /\ row = [a \in Actions |-> HasRow(a)]
    /\ Init /\ SaveInit /\ PagesInit

MCSpec == MCInit /\ [][PagesNext /\ UNCHANGED form]_<<all, form>> /\ WF_all(PageStep)

\* Bounds: only the one row changes, pages are asked of the form's rows, and
\* a change of rows and a change of the database are tried apart.
OneRowChanges == \A a \in Actions : a = form.changing \/ row[a] = HasRow(a)
PagesOfTheForm == page \in form.rows \cup {NoAction}
ChangesApart == changes = 0 \/ notices = {}
=============================================================================
