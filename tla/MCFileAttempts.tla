---------------------------- MODULE MCFileAttempts ----------------------------
(* Small instances of FileAttempts for TLC: a table with a text column and *)
(* two trailing columns that some clients leave out (the form of           *)
(* F_DOCLIGNE), one with a text column only (F_ARTICLE), one without.      *)
(* Each exception the properties make has a deposit.                       *)
EXTENDS FileAttempts

Docligne ==
  [width |-> 6, text |-> 2, fallback |-> <<3, 4>>, notNull |-> {1},
   types |-> <<"integer", "text", "numeric", "date", "numeric", "date">>]
DocligneWithInteger ==
  [width |-> 7, text |-> 2, fallback |-> <<3, 4>>, notNull |-> {1},
   types |-> <<"integer", "text", "numeric", "date", "integer", "numeric", "date">>]
\* The columns after the text in the order of F_DOCLIGNE.
DocligneMixed ==
  [width |-> 7, text |-> 2, fallback |-> <<3, 5>>, notNull |-> {1},
   types |-> <<"integer", "text", "numeric", "integer", "numeric", "numeric", "numeric">>]
Article ==
  [width |-> 3, text |-> 2, fallback |-> <<>>, notNull |-> {1},
   types |-> <<"integer", "text", "boolean">>]
\* Texts behind the text column.
ArticleWithText ==
  [width |-> 5, text |-> 2, fallback |-> <<>>, notNull |-> {},
   types |-> <<"numeric", "text", "text", "numeric", "numeric">>]
\* Texts alone.
Names ==
  [width |-> 2, text |-> 0, fallback |-> <<>>, notNull |-> {}, types |-> <<"text", "text">>]
Depot ==
  [width |-> 2, text |-> 0, fallback |-> <<>>, notNull |-> {},
   types |-> <<"numeric", "text">>]

Good(table) ==
  [c \in 1..table.width |->
     CASE table.types[c] = "integer" -> V("12")
       [] table.types[c] = "numeric" -> V("3,5")
       [] table.types[c] = "date"    -> V("fr")
       [] table.types[c] = "boolean" -> V("true")
       [] table.types[c] = "text"    ->
            [words |-> <<"abc", "NULL", "def", "abc", "def">>, pad |-> FALSE]]

Values ==
  {V("12"), V("3.5"), V("3,5"), V("iso"), V("fr"), V("NULL"), V("null"), V("abc"),
   V("1e5"), V("comma"), V("big"), Empty,
   [words |-> <<"iso", "time">>, pad |-> FALSE], [words |-> <<"iso", "abc">>, pad |-> FALSE],
   [words |-> <<>>, pad |-> TRUE], [words |-> <<"3,5">>, pad |-> TRUE]}

Row(table, c, v) == [Good(table) EXCEPT ![c] = v]
AnyLine(table) ==
  {[row |-> Row(table, c, v), full |-> full, strays |-> s] :
     c \in {c \in 1..table.width : table.types[c] # "text"}, v \in Values,
     full \in {table.fallback = <<>>, TRUE},
     s \in IF table.text = 0 THEN {0} ELSE 0..3}
GoodLine(table) ==
  [row |-> Good(table), full |-> table.fallback = <<>>, strays |-> 0]
Unusual(table, c, v) == [GoodLine(table) EXCEPT !.row = Row(table, c, v)]
\* A text cut around the word null, behind a header.
NullText == [words |-> <<"abc", "null", "def">>, pad |-> FALSE]
NullInText(table, s) ==
  [row |-> Row(table, 2, NullText), full |-> table.fallback = <<>>, strays |-> s]
Blank(table) == [c \in 1..table.width |-> Empty]
Leads(table) == {<<>>, <<HeaderRow(table)>>, <<Blank(table)>>}
\* No data, a header that comes second, a line of NULLs, a text that is a number,
\* a text behind the text column that is no value of another column, a French date
\* with a blank behind it.
Null(table) == [GoodLine(table) EXCEPT !.row = [c \in 1..table.width |-> V("NULL")]]
OddTexts ==
  {V("3,5"), V("null"), V("def"), V("unfit"), [V("3,5") EXCEPT !.pad = TRUE],
   [words |-> <<"NULL", "3,5">>, pad |-> FALSE]}
OddText(f, s) == [Unusual(ArticleWithText, 3, f) EXCEPT !.strays = s]
OddDeposits ==
  {[table |-> ArticleWithText, lead |-> lead, lines |-> lines] :
     lead \in Leads(ArticleWithText),
     lines \in {<<>>, <<GoodLine(ArticleWithText), Null(ArticleWithText)>>} \cup
               {<<OddText(f, s)>> : f \in OddTexts,
                                   s \in 0..1}}
  \cup {[table |-> Names, lead |-> lead, lines |-> <<GoodLine(Names)>>] :
          lead \in Leads(Names) \cup {<<Blank(Names), HeaderRow(Names)>>}}
  \cup {[table |-> Docligne, lead |-> <<>>,
          lines |-> <<Unusual(Docligne, 4, [V("fr") EXCEPT !.pad = TRUE])>>]}

MCDeposits ==
  UNION {
    {[table |-> table, lead |-> lead, lines |-> <<line>>] :
       lead \in Leads(table), line \in AnyLine(table)} \cup
    {[table |-> table, lead |-> <<>>, lines |-> <<GoodLine(table), line>>] :
       line \in AnyLine(table)} \cup
    {[table |-> table, lead |-> <<>>, lines |-> <<Unusual(table, c, v), Unusual(table, c, w)>>] :
       c \in {1, 3} \cap 1..table.width, v \in Values, w \in Values} :
      table \in {Docligne, DocligneWithInteger, Article, Depot}}
  \cup OddDeposits
  \cup {[table |-> DocligneMixed, lead |-> lead, lines |-> <<GoodLine(DocligneMixed), line>>] :
          lead \in Leads(DocligneMixed), line \in {GoodLine(DocligneMixed),
            [GoodLine(DocligneMixed) EXCEPT !.full = TRUE]}}
  \cup {[table |-> table, lead |-> <<HeaderRow(table)>>, lines |-> <<NullInText(table, s)>>] :
          table \in {Docligne, Article}, s \in 0..2}

===============================================================================
