------------------------------- MODULE SqlText -------------------------------
(***************************************************************************)
(* How a statement is read before it runs.  The HTTP interface, the        *)
(* PostgreSQL and command-line interfaces (sql_guardrails.rs) and the      *)
(* engine (commands.rs) each carry a scanner of their own for comments,    *)
(* quotes and separators, and a refused, a checked and an executed         *)
(* statement are the same statement only as far as these scanners agree.   *)
(*                                                                         *)
(* A text is a sequence of character classes and a piece of it the pair of *)
(* its first and last position, so that two scanners can be compared by    *)
(* the places they find.  Both quotes are treated alike, and so are a line *)
(* break and a space except at the end of a line comment: one stands for   *)
(* both.                                                                   *)
(***************************************************************************)
EXTENDS Integers, Sequences, FiniteSets, SequencesExt

CONSTANTS MaxText,   \* the longest text
          MaxItems   \* the longest statement

VARIABLES sql,    \* a text that comes in
          items   \* a statement that comes in, word by word

textVars == <<sql, items>>

\* Letters and digits, the separator of statements, and what else a scanner looks for.
Chars == {"word", "-", "/", "*", "quote", "sep", "\n"}
IsSpace(i) == sql[i] = "\n"
Starts(i, b, two) == i < b /\ <<sql[i], sql[i + 1]>> = two

First(S, none) == IF S = {} THEN none ELSE CHOOSE i \in S : \A j \in S : i <= j

-----------------------------------------------------------------------------
(* lex_sql: jumps over comments and quoted text, keeps words and symbols.   *)

\* A line comment that hides the rest of the text.
AfterLine_ToEnd(i, b) == b + 1

AfterLine(i, b) == First({j \in i..b : sql[j] = "\n"}, b) + 1
AfterBlock(i, b) == First({j \in i..(b - 1) : Starts(j, b, <<"*", "/">>)}, b - 1) + 2
AfterQuote(i, b) ==
    LET after[j \in i..(b + 1)] ==
            IF j > b THEN b + 1
            ELSE IF sql[j] # "quote" THEN after[j + 1]
            ELSE IF Starts(j, b, <<"quote", "quote">>) THEN after[j + 2]
            ELSE j + 1
    IN  after[i]
AfterWord(i, b) == First({j \in i..b : sql[j] # "word"}, b + 1)

LexSql(a, b) ==
    LET lex[i \in a..(b + 1)] ==
            IF i > b THEN {}
            ELSE IF IsSpace(i) THEN lex[i + 1]
            ELSE IF Starts(i, b, <<"-", "-">>) THEN lex[AfterLine(i + 2, b)]
            ELSE IF Starts(i, b, <<"/", "*">>) THEN lex[AfterBlock(i + 2, b)]
            ELSE IF sql[i] = "quote" THEN lex[AfterQuote(i + 1, b)]
            ELSE IF sql[i] = "word" THEN
                     {<<i, AfterWord(i, b) - 1>>} \cup lex[AfterWord(i, b)]
            ELSE {<<i, i>>} \cup lex[i + 1]
    IN  lex[a]

\* The piece without the space, and without the separators, around it.
Trim(a, b) ==
    LET solid == {i \in a..b : ~IsSpace(i)}
    IN  IF solid = {} THEN <<1, 0>> ELSE <<First(solid, 0), CHOOSE i \in solid :
                                                            \A j \in solid : j <= i>>
TrimEnd(a, b) == Trim(a, First({i \in a..b : \A j \in i..b : sql[j] = "sep"}, b + 1) - 1)

-----------------------------------------------------------------------------
(* The splitters: a scan over the characters with what it is inside of.     *)

Scan == [inside |-> "code", skip |-> FALSE, from |-> 1, found |-> <<>>]

Scanned(Step(_, _)) ==
    LET scan[i \in 0..Len(sql)] == IF i = 0 THEN Scan ELSE Step(scan[i - 1], i)
    IN  scan[Len(sql)]

Pushed(s, p) == IF p[1] > p[2] THEN s.found ELSE Append(s.found, p)

\* sql_guardrails.rs drops a statement that is only comments.
GuardPushed(s, p) == IF LexSql(p[1], p[2]) = {} THEN s.found ELSE Pushed(s, p)

GuardStep(s, i) ==
    LET two(p) == Starts(i, Len(sql), p)
    IN  IF s.skip THEN [s EXCEPT !.skip = FALSE]
        ELSE IF s.inside = "line" THEN
                 IF sql[i] = "\n" THEN [s EXCEPT !.inside = "code"] ELSE s
        ELSE IF s.inside = "block" THEN
                 IF two(<<"*", "/">>) THEN [s EXCEPT !.inside = "code", !.skip = TRUE] ELSE s
        ELSE IF s.inside = "quote" THEN
                 IF sql[i] # "quote" THEN s
                 ELSE IF two(<<"quote", "quote">>) THEN [s EXCEPT !.skip = TRUE]
                 ELSE [s EXCEPT !.inside = "code"]
        ELSE IF two(<<"-", "-">>) THEN [s EXCEPT !.inside = "line", !.skip = TRUE]
        ELSE IF two(<<"/", "*">>) THEN [s EXCEPT !.inside = "block", !.skip = TRUE]
        ELSE IF sql[i] = "quote" THEN [s EXCEPT !.inside = "quote"]
        ELSE IF sql[i] = "sep" THEN
                 LET p == Trim(s.from, i)
                 IN  [s EXCEPT !.from = i + 1,
                               !.found = GuardPushed(s, TrimEnd(p[1], p[2]))]
        ELSE s

GuardSplit ==
    LET s == Scanned(GuardStep)
    IN  GuardPushed(s, Trim(s.from, Len(sql)))

\* commands.rs copies a comment in a loop of its own, and keeps the statements
\* that are only comments.
CoreSplit ==
    LET n == Len(sql)
        piece(p) == IF p[1] > p[2] THEN <<>> ELSE <<p>>
        split[i \in 1..(n + 1)] ==
            [from \in 1..(n + 1) |->
                IF i > n THEN piece(Trim(from, n))
                ELSE IF sql[i] = "quote" THEN split[AfterQuote(i + 1, n)][from]
                ELSE IF Starts(i, n, <<"-", "-">>) THEN split[AfterLine(i + 2, n)][from]
                ELSE IF Starts(i, n, <<"/", "*">>) THEN split[AfterBlock(i + 2, n)][from]
                ELSE IF sql[i] = "sep" THEN piece(Trim(from, i - 1)) \o split[i + 1][i + 1]
                ELSE split[i + 1][from]]
    IN  split[1][1]

\* rest.rs knows no comments.
RestStep(s, i) ==
    IF s.skip THEN [s EXCEPT !.skip = FALSE]
    ELSE IF s.inside = "quote" THEN
             IF sql[i] # "quote" THEN s
             ELSE IF Starts(i, Len(sql), <<"quote", "quote">>) THEN [s EXCEPT !.skip = TRUE]
             ELSE [s EXCEPT !.inside = "code"]
    ELSE IF sql[i] = "quote" THEN [s EXCEPT !.inside = "quote"]
    ELSE IF sql[i] = "sep" THEN
             [s EXCEPT !.from = i + 1, !.found = Pushed(s, Trim(s.from, i - 1))]
    ELSE s

RestSplit ==
    LET s == Scanned(RestStep)
    IN  Pushed(s, Trim(s.from, Len(sql)))

\* sql_keywords_outside_literals: the words the export looks at.
KeywordStep(s, i) ==
    LET two(p) == Starts(i, Len(sql), p)
        ended == IF s.from < i THEN Append(s.found, <<s.from, i - 1>>) ELSE s.found
        into(where, skips) ==
            [inside |-> where, skip |-> skips, from |-> i + 1, found |-> ended]
    IN  IF s.skip THEN [s EXCEPT !.skip = FALSE, !.from = i + 1]
        ELSE IF s.inside = "line" THEN
                 [s EXCEPT !.inside = IF sql[i] = "\n" THEN "code" ELSE @, !.from = i + 1]
        ELSE IF s.inside = "block" THEN
                 IF two(<<"*", "/">>)
                 THEN [s EXCEPT !.inside = "code", !.skip = TRUE, !.from = i + 1]
                 ELSE [s EXCEPT !.from = i + 1]
        ELSE IF s.inside = "quote" THEN
                 IF sql[i] = "quote" /\ two(<<"quote", "quote">>)
                 THEN [s EXCEPT !.skip = TRUE, !.from = i + 1]
                 ELSE [s EXCEPT !.inside = IF sql[i] = "quote" THEN "code" ELSE @,
                                !.from = i + 1]
        ELSE IF two(<<"-", "-">>) THEN into("line", TRUE)
        ELSE IF two(<<"/", "*">>) THEN into("block", TRUE)
        ELSE IF sql[i] = "quote" THEN into("quote", FALSE)
        ELSE IF sql[i] = "word" THEN s
        ELSE into("code", FALSE)

KeywordsOutsideLiterals ==
    LET s == Scanned(KeywordStep)
    IN  IF s.from <= Len(sql) THEN Append(s.found, <<s.from, Len(sql)>>) ELSE s.found

-----------------------------------------------------------------------------
(* CREATE TABLE AS, as sql_guardrails.rs checks it and as the engine runs   *)
(* it.  Here a statement is its words, comments and literals with a space   *)
(* between any two; "note as" is a block comment that contains the word AS. *)

Comments == {"note", "note as"}
Literals == {"literal"}
Names == {"t", "AS", "SELECT"}  \* the words that could name a table
Items == Names \cup Comments \cup Literals \cup {"TABLE", "("}

\* Positions of the tokens that the lexer of sql_guardrails.rs keeps, and of
\* the words among them.
Tokens == {i \in DOMAIN items : items[i] \notin Comments \cup Literals}
IsWord(i) == items[i] \in Names \cup {"CREATE", "TABLE"}
Words == {i \in Tokens : IsWord(i)}

\* The positions that come first, second and third.
After(S, i) == First({j \in S : j > i}, Len(items) + 1)
Second(S) == After(S, After(S, 0))
Third(S) == After(S, Second(S))

\* The keyword a piece starts with: the lexer's first word.
GuardKeyword(from) == First({i \in from..Len(items) : IsWord(i)}, 0)

\* create_relation_target, create_materialization_query.
GuardTarget == IF Third(Tokens) \in Tokens THEN Third(Tokens) ELSE 0
GuardQuery == First({i \in Words : items[i] = "AS"}, -1) + 1

\* validate_demo_sql on one statement that creates a table.
GuardAccepts ==
    /\ Third(Words) \in Words
    /\ <<items[After(Words, 0)], items[Second(Words)]>> = <<"CREATE", "TABLE">>
    /\ <<items[After(Tokens, 0)], items[Second(Tokens)]>> = <<"CREATE", "TABLE">> =>
           GuardTarget # 0 /\ items[GuardTarget] \in Names \cup {"TABLE"}
    /\ GuardQuery # 0
    /\ GuardKeyword(GuardQuery) # 0 /\ items[GuardKeyword(GuardQuery)] = "SELECT"

\* strip_leading_sql_comments
Stripped(from) == First({i \in from..Len(items) : items[i] \notin Comments}, Len(items) + 1)

\* keyword_sequence_end: the position after CREATE TABLE, 0 for another statement.
CoreHeader ==
    LET i == Stripped(1)
    IN  IF i < Len(items) /\ <<items[i], items[i + 1]>> = <<"CREATE", "TABLE">> THEN i + 2 ELSE 0

\* find_as_clause looks into comments but not into literals.
CoreAs == First({i \in CoreHeader..Len(items) : items[i] \in {"AS", "note as"}}, 0)

\* validate_materialization_query: behind one parenthesis and comments.
CoreKeyword(from) ==
    LET head == Stripped(IF from <= Len(items) /\ items[from] = "(" THEN from + 1 ELSE from)
    IN  First({i \in head..Len(items) : items[i] # "("}, 0)

\* handle_ctas writes the table; a comment cut in two is not a keyword.
CoreCreates ==
    /\ CoreHeader # 0 /\ CoreAs # 0
    /\ CoreAs = CoreHeader + 1 /\ items[CoreHeader] \in Names \cup {"TABLE"}
    /\ items[CoreAs] = "AS"
    /\ CoreKeyword(CoreAs + 1) # 0 /\ items[CoreKeyword(CoreAs + 1)] = "SELECT"

\* rest.rs splits at white space, and takes a comment for words.
RestTarget == IF Len(items) >= 3 /\ SubSeq(items, 1, 2) = <<"CREATE", "TABLE">> THEN 3 ELSE 0
RestAs == First({i \in DOMAIN items : items[i] \in {"AS", "note as"}}, 0)
RestKeyword(from) == First({i \in from..Len(items) : items[i] # "("}, 0)
RestAccepts ==
    /\ RestTarget # 0 /\ items[RestTarget] \in Names \cup {"TABLE"}
    /\ RestAs # 0 /\ items[RestAs] = "AS"
    /\ RestKeyword(RestAs + 1) # 0 /\ items[RestKeyword(RestAs + 1)] = "SELECT"

-----------------------------------------------------------------------------
\* Texts, and statements that create a table, of every kind up to a length.
TextInit ==
    /\ sql = <<>>
    /\ items \in {<<>>, <<"CREATE", "TABLE">>, <<"note", "CREATE", "TABLE">>, <<"CREATE", "note">>}

NextCharacter == /\ items = <<>> /\ Len(sql) < MaxText
                 /\ \E c \in Chars : sql' = Append(sql, c)
                 /\ UNCHANGED items
NextItem == /\ items # <<>> /\ Len(items) < MaxItems
            /\ \E i \in Items : items' = Append(items, i)
            /\ UNCHANGED sql

TextNext == NextCharacter \/ NextItem

TextSpec == TextInit /\ [][TextNext]_textVars

(* The statement that is checked is the statement that runs.  The splitter  *)
(* and the lexer of sql_guardrails.rs see the same tokens, the engine's     *)
(* splitter finds the statements that the check found, the words the export *)
(* looks at are the lexer's, and rest.rs agrees where there are no          *)
(* comments; of a CREATE TABLE AS that both accept, the table the engine    *)
(* writes and the query it fills it with are those that were checked; and   *)
(* what the HTTP interface takes, the other interfaces take.                *)
CheckedIsRun ==
    LET guard == ToSet(GuardSplit)
        whole == LexSql(1, Len(sql))
    IN  /\ UNION {LexSql(p[1], p[2]) : p \in guard} = {t \in whole : sql[t[1]] # "sep"}
        /\ guard = {p \in ToSet(CoreSplit) : LexSql(p[1], p[2]) # {}}
        /\ ToSet(KeywordsOutsideLiterals) = {t \in whole : sql[t[1]] = "word"}
        /\ (\A i \in DOMAIN sql : /\ ~Starts(i, Len(sql), <<"-", "-">>)
                                   /\ ~Starts(i, Len(sql), <<"/", "*">>))
               => RestSplit = CoreSplit
        /\ items # <<>> /\ GuardAccepts /\ CoreCreates =>
               GuardTarget = CoreHeader /\ GuardQuery = CoreAs + 1
        /\ items # <<>> /\ RestAccepts =>
               GuardAccepts /\ (CoreCreates => RestTarget = CoreHeader /\ RestAs = CoreAs)
=============================================================================
