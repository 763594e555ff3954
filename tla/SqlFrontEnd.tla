---------------------------- MODULE SqlFrontEnd -----------------------------
(***************************************************************************)
(* The lexer and the parser of the database (phase 3), against writers of  *)
(* what they read.                                                         *)
(***************************************************************************)
EXTENDS Integers, Sequences, FiniteSets, SequencesExt

-----------------------------------------------------------------------------
(***************************************************************************)
(* The lexer of the database, phase 3 (lexer.c, token.c), over sequences   *)
(* of characters.  The state of a Lexer is a record; an operator takes it  *)
(* to the next one.  Keywords is the table of lexer_is_keyword, upper_case *)
(* the toupper of the characters that have one.  Memory does not run out,  *)
(* and the words of the error messages are left out.                       *)
(***************************************************************************)

CONSTANTS
    Inputs,             \* texts given to lexer_create
    Keywords,           \* spellings of the keywords, in upper case
    Letters, Digits,    \* the characters isalpha and isdigit accept
    upper_case,         \* from a letter to its capital
    MAX_TOKEN_LENGTH,   \* the bytes of a token's value, with its end
    MAX_TOKENS

ASSUME LexerAssumption == MAX_TOKEN_LENGTH \in Nat \ {0, 1} /\ MAX_TOKENS \in Nat

VARIABLES
    input,   \* Lexer.input
    lexer    \* what lexer_tokenize left in the other fields

lexerVars == <<input, lexer>>

lexer_create == [position |-> 1, line |-> 1, column |-> 1, tokens |-> << >>, error |-> FALSE]

LexerInit == input = << >> /\ lexer = lexer_create

Newline == "\n"
Spaces == {" ", Newline}
NameChars == Letters \cup Digits \cup {"_"}

\* lexer_peek_char and the look ahead: no character follows the end.
CharAt(text, p) == IF p \in DOMAIN text THEN text[p] ELSE "end"

\* lexer_advance_char as often as it takes to reach position q.
AdvanceTo(text, lx, q) ==
    LET ends == {p \in lx.position .. q - 1 : text[p] = Newline}
    IN  [lx EXCEPT !.position = q,
                   !.line = @ + Cardinality(ends),
                   !.column = IF ends = {} THEN @ + (q - lx.position) ELSE q - Max(ends)]

\* The first position from p on that is not one of good, or is the end.
FirstNot(text, p, good) == Min({q \in p .. Len(text) + 1 : CharAt(text, q) \notin good})

RECURSIVE lexer_skip_whitespace(_, _)
lexer_skip_whitespace(text, lx) ==
    LET p == lx.position
        lineEnd == Min({q \in p .. Len(text) + 1 : CharAt(text, q) \in {Newline, "end"}})
    IN  CASE CharAt(text, p) \in Spaces ->
                lexer_skip_whitespace(text, AdvanceTo(text, lx, FirstNot(text, p, Spaces)))
          [] CharAt(text, p) = "-" /\ CharAt(text, p + 1) = "-" ->
                lexer_skip_whitespace(text, AdvanceTo(text, lx, lineEnd))
          [] OTHER -> lx

\* What an extraction puts into the buffer, and the position it stops at.
Extract(value, stop) == [value |-> value, stop |-> stop]

\* Characters from p on, as many as the buffer holds, up to the one before stop.
Buffered(text, p, stop) ==
    LET q == Min({stop, p + MAX_TOKEN_LENGTH - 1}) IN Extract(SubSeq(text, p, q - 1), q)

lexer_extract_identifier(text, p) == Buffered(text, p, FirstNot(text, p, NameChars))

\* Digits and one dot.
lexer_extract_number(text, p) ==
    LET whole == FirstNot(text, p, Digits)
    IN  Buffered(text, p, IF CharAt(text, whole) = "." THEN FirstNot(text, whole + 1, Digits) ELSE whole)

Quote == "'"

\* From p on, value being read: two quotes stand for one, one quote ends the
\* string, and so do the end of the text and that of the buffer.
RECURSIVE ReadString(_, _, _)
ReadString(text, p, value) ==
    IF Len(value) = MAX_TOKEN_LENGTH - 1 \/ p > Len(text) THEN Extract(value, p)
    ELSE IF text[p] # Quote THEN ReadString(text, p + 1, Append(value, text[p]))
    ELSE IF CharAt(text, p + 1) = Quote THEN ReadString(text, p + 2, Append(value, Quote))
    ELSE Extract(value, p + 1)

lexer_extract_string(text, p) == ReadString(text, p + 1, << >>)

Capitals(word) == [i \in DOMAIN word |-> IF word[i] \in DOMAIN upper_case THEN upper_case[word[i]] ELSE word[i]]

lexer_is_keyword(word) == Capitals(word) \in Keywords

\* The type of a keyword is its spelling, that of an operator what
\* token_type_to_string calls it.
token_create(type, value, lx) == [type |-> type, value |-> value, line |-> lx.line, column |-> lx.column]

Operators == {"=", "<", ">", "+", "-", "*", "/", "(", ")", ",", ";"}

LongOperators == {<<"<", "=">>, <<"<", ">">>, <<">", "=">>, <<"!", "=">>}

OperatorType(op) == IF op \in {<<"<", ">">>, <<"!", "=">>} THEN <<"!", "=">> ELSE op

Tokenized(text, lx, type, x) ==
    [AdvanceTo(text, lx, x.stop) EXCEPT !.tokens = Append(@, token_create(type, x.value, lx))]

\* The token at the position of lx, behind its white space.
NextToken(text, lx) ==
    LET p == lx.position
        c == text[p]
        word == lexer_extract_identifier(text, p)
        pair == <<c, CharAt(text, p + 1)>>
    IN  CASE Len(lx.tokens) >= MAX_TOKENS -> [lx EXCEPT !.error = TRUE]
          [] OTHER ->
             CASE c \in Letters \cup {"_"} ->
                    Tokenized(text, lx, IF lexer_is_keyword(word.value) THEN Capitals(word.value)
                                        ELSE <<"IDENTIFIER">>, word)
               [] c \in Digits -> Tokenized(text, lx, <<"NUMBER">>, lexer_extract_number(text, p))
               [] c = Quote -> Tokenized(text, lx, <<"STRING">>, lexer_extract_string(text, p))
               [] pair \in LongOperators -> Tokenized(text, lx, OperatorType(pair), Extract(pair, p + 2))
               [] c \in Operators /\ pair \notin LongOperators ->
                    Tokenized(text, lx, OperatorType(<<c>>), Extract(<<c>>, p + 1))
               [] OTHER -> [lx EXCEPT !.error = TRUE]

\* The loop of lexer_tokenize and the end token behind it, which is not held
\* against MAX_TOKENS.
RECURSIVE Tokenize(_, _)
Tokenize(text, lx) ==
    LET at == lexer_skip_whitespace(text, lx)
    IN  IF lx.error THEN lx
        ELSE IF at.position > Len(text)
             THEN [at EXCEPT !.tokens = Append(@, token_create(<<"EOF">>, << >>, at))]
             ELSE Tokenize(text, NextToken(text, at))

lexer_tokenize(text) ==
    /\ input' = text
    /\ lexer' = Tokenize(text, lexer_create)

\* A lexer reads one text; another text is read by a lexer of its own.
LexerNext == lexer = lexer_create /\ \E text \in Inputs : lexer_tokenize(text)

LexerSpec == LexerInit /\ [][LexerNext]_lexerVars

-----------------------------------------------------------------------------
(* Properties                                                              *)

\* What a token is written as; strings of the buffer's length are not closed.
Image(token) ==
    IF token.type = <<"STRING">>
    THEN <<Quote>> \o FlattenSeq([i \in DOMAIN token.value |->
            IF token.value[i] = Quote THEN <<Quote, Quote>> ELSE <<token.value[i]>>]) \o <<Quote>>
    ELSE token.value

Rewritten(ts) == FlattenSeq([i \in DOMAIN ts |-> Image(ts[i]) \o <<" ">>])

Meaning(ts) == [i \in DOMAIN ts |-> <<ts[i].type, ts[i].value>>]

\* Where a line and a column are in the text.
PositionOf(text, token) ==
    LET ends == {p \in DOMAIN text : text[p] = Newline}
        before == {p \in ends : Cardinality({q \in ends : q <= p}) < token.line}
    IN  (IF before = {} THEN 0 ELSE Max(before)) + token.column

\* Reading takes back writing: whatever way a text spells its tokens, with
\* spaces, comments, capitals and escapes, the tokens written one by one are
\* read as the same tokens, and every token begins where its line and column
\* say, behind the ones before it.  Strings that fill the buffer are left out:
\* their closing quote is read as the beginning of another.  lexer_tokenize and
\* below, lexer.c:101-478.
ReadsWhatWasWritten ==
    ~ lexer.error /\ lexer.tokens # << >> /\ (\A i \in DOMAIN lexer.tokens :
                        lexer.tokens[i].type = <<"STRING">> => Len(lexer.tokens[i].value) < MAX_TOKEN_LENGTH - 1) =>
        LET again == Tokenize(Rewritten(lexer.tokens), lexer_create)
            places == [i \in DOMAIN lexer.tokens |-> PositionOf(input, lexer.tokens[i])]
        IN  /\ ~ again.error /\ Meaning(again.tokens) = Meaning(lexer.tokens)
            /\ \A i \in DOMAIN places :
                  /\ i > 1 => places[i] > places[i - 1]
                  /\ lexer.tokens[i].type = <<"STRING">> => CharAt(input, places[i]) = Quote
                  /\ lexer.tokens[i].type \notin {<<"STRING">>, <<"EOF">>} =>
                        SubSeq(input, places[i], places[i] + Len(lexer.tokens[i].value) - 1)
                            = lexer.tokens[i].value

-----------------------------------------------------------------------------
(***************************************************************************)
(* The recursive descent parser of the database, phase 3 (parser.c, and    *)
(* the nodes of ast.c), over sequences of tokens.  A parsing function is   *)
(* an operator from a state of the parser, the position and the tree built *)
(* so far, to the next one; Failed, which no token follows, stands for the *)
(* early returns with an error, so that a step after a failure fails.  A   *)
(* list is collected in an array of LIST_SIZE slots (100 in the code) whose*)
(* end nobody tests; what happens once it is passed is undefined in C, and *)
(* the model stops there, with Overrun.  Memory does not run out; the texts*)
(* of the errors are left out.                                             *)
(***************************************************************************)

CONSTANTS
    Statements,   \* trees of statements that are written to be parsed
    Texts,        \* other token sequences given to the parser
    LIST_SIZE,    \* slots of the array of a list
    atoi          \* the number that the text of a number begins with

ASSUME ParserAssumption == LIST_SIZE \in Nat /\ atoi \in [DOMAIN atoi -> Nat]

\* A token: its type, and the value of an identifier, number or string.
Token(type, value) == [type |-> type, value |-> value]
Word(type) == Token(type, "")

VARIABLES
    tokens,      \* Parser.tokens
    statement,   \* what parser_parse returned: where it stopped, and the tree
    meant        \* auxiliary: the tree the text was written from, if it was

parserVars == <<tokens, statement, meant>>

NoAst == [kind |-> "none", table |-> "", columns |-> << >>, values |-> << >>, where |-> << >>]

Failed == [current |-> 0, ast |-> NoAst]
Overrun == [current |-> 0, ast |-> [NoAst EXCEPT !.kind = "overrun"]]

\* No step follows an overrun; other steps that do not apply fail.
Fail(p) == IF p = Overrun THEN Overrun ELSE Failed

ParserInit == tokens = << >> /\ statement = Failed /\ meant = NoAst

-----------------------------------------------------------------------------
(* Texts of statements                                                     *)

Commas(parts) ==
    FlattenSeq([i \in DOMAIN parts |-> IF i = 1 THEN parts[i] ELSE <<Word("COMMA")>> \o parts[i]])

Names(columns) == Commas([i \in DOMAIN columns |->
    <<Token(IF columns[i].value = "*" THEN "ASTERISK" ELSE "IDENTIFIER", columns[i].value)>>])

Literals(values) == Commas([i \in DOMAIN values |-> <<Token(values[i].kind, values[i].value)>>])

Numeral(size) == CHOOSE text \in DOMAIN atoi : atoi[text] = size

\* A definition without a size has the size 0.
Definitions(columns) == Commas([i \in DOMAIN columns |->
    <<Token("IDENTIFIER", columns[i].name), Word(columns[i].type)>>
      \o IF columns[i].size = 0 THEN << >>
         ELSE <<Word("LPAREN"), Token("NUMBER", Numeral(columns[i].size)), Word("RPAREN")>>])

Parenthesised(ts) == <<Word("LPAREN")>> \o ts \o <<Word("RPAREN")>>

Where(conditions) ==
    IF conditions = << >> THEN << >>
    ELSE LET c == conditions[1]
         IN  <<Word("WHERE"), Token("IDENTIFIER", c.left.value), Word(c.op),
               Token(c.right.kind, c.right.value)>>

\* The text of a statement.
Written(ast) ==
    LET table == <<Token("IDENTIFIER", ast.table)>>
    IN  CASE ast.kind = "SELECT" -> <<Word("SELECT")>> \o Names(ast.columns) \o <<Word("FROM")>>
                                      \o table \o Where(ast.where)
          [] ast.kind = "DELETE" -> <<Word("DELETE"), Word("FROM")>> \o table \o Where(ast.where)
          [] ast.kind = "INSERT" -> <<Word("INSERT"), Word("INTO")>> \o table
                                      \o Parenthesised(Names(ast.columns)) \o <<Word("VALUES")>>
                                      \o Parenthesised(Literals(ast.values))
          [] OTHER               -> <<Word("CREATE"), Word("TABLE")>> \o table
                                      \o Parenthesised(Definitions(ast.columns))

\* lexer_tokenize ends every text with an EOF.
TextOf(ast) == Append(Written(ast), Word("EOF"))

ParserTypeOK ==
    /\ meant \in Statements \cup {NoAst}
    /\ tokens \in Seq([type : STRING, value : STRING])
    /\ statement.current \in 0 .. Len(tokens) + 1
    /\ statement.ast.kind \in {"none", "overrun", "SELECT", "INSERT", "CREATE", "DELETE"}

-----------------------------------------------------------------------------
(* The tokens are an argument, ts, since properties parse other texts.     *)

parser_current_token(ts, p) ==
    IF p.current \in DOMAIN ts THEN ts[p.current] ELSE Word("none")

At_token(ts, p, types) == parser_current_token(ts, p).type \in types

parser_advance(p) == [p EXCEPT !.current = @ + 1]

parser_expect(ts, p, type) == IF At_token(ts, p, {type}) THEN parser_advance(p) ELSE Fail(p)

OperatorTokens == {"=", "<>", "<", ">", "<=", ">="}

ArithmeticTokens == {"+", "-", "*", "/"}

token_is_operator(type) == type \in OperatorTokens \cup ArithmeticTokens

\* What is no comparison is taken as one.
token_to_operator(type) == IF type \in OperatorTokens THEN type ELSE "="

TypeTokens == {"INT", "VARCHAR", "FLOAT", "CHAR"}

token_to_data_type(type) == IF type \in TypeTokens THEN type ELSE "INT"

ast_create_identifier(t) == [kind |-> "IDENTIFIER", value |-> t.value]

ast_create_literal(t) == [kind |-> t.type, value |-> t.value]

ast_create_condition(left, op, right) == [left |-> left, op |-> op, right |-> right]

ast_create_column_def(name, type, size) == [name |-> name, type |-> type, size |-> size]

\* identifiers and *, separated by commas
RECURSIVE parser_parse_column_list(_, _)
parser_parse_column_list(ts, p) ==
    IF ~ At_token(ts, p, {"IDENTIFIER", "ASTERISK"}) THEN Fail(p)
    ELSE IF Len(p.ast.columns) = LIST_SIZE THEN Overrun
    ELSE LET t    == parser_current_token(ts, p)
             next == [parser_advance(p) EXCEPT !.ast.columns = Append(@, ast_create_identifier(t))]
         IN  IF At_token(ts, next, {"COMMA"})
             THEN parser_parse_column_list(ts, parser_advance(next))
             ELSE next

RECURSIVE parser_parse_value_list(_, _)
parser_parse_value_list(ts, p) ==
    IF ~ At_token(ts, p, {"NUMBER", "STRING"}) THEN Fail(p)
    ELSE IF Len(p.ast.values) = LIST_SIZE THEN Overrun
    ELSE LET t    == parser_current_token(ts, p)
             next == [parser_advance(p) EXCEPT !.ast.values = Append(@, ast_create_literal(t))]
         IN  IF At_token(ts, next, {"COMMA"})
             THEN parser_parse_value_list(ts, parser_advance(next))
             ELSE next

\* identifier operator value
parser_parse_condition(ts, p) ==
    LET op    == parser_advance(p)
        value == parser_advance(op)
        left  == parser_current_token(ts, p)
        type  == parser_current_token(ts, op).type
        right == parser_current_token(ts, value)
    IN  IF /\ left.type = "IDENTIFIER"
           /\ token_is_operator(type)
           /\ right.type \in {"NUMBER", "STRING", "IDENTIFIER"}
        THEN [parser_advance(value) EXCEPT !.ast.where =
                 <<ast_create_condition(ast_create_identifier(left), token_to_operator(type),
                                        ast_create_literal(right))>>]
        ELSE Fail(p)

\* One condition; an AND or OR behind it is left where it is.
parser_parse_where_clause(ts, p) == parser_parse_condition(ts, parser_expect(ts, p, "WHERE"))

OptionalWhere(ts, p) == IF At_token(ts, p, {"WHERE"}) THEN parser_parse_where_clause(ts, p) ELSE p

\* name type [ ( size ) ]; whatever stands for the type is taken as one.
parser_parse_column_def(ts, p) ==
    LET name  == parser_current_token(ts, p)
        at    == parser_advance(p)
        type  == parser_current_token(ts, at)
        paren == parser_advance(at)
        open  == parser_advance(paren)
        sized == At_token(ts, paren, {"LPAREN"}) /\ At_token(ts, open, {"NUMBER"})
        size  == IF sized THEN atoi[parser_current_token(ts, open).value] ELSE 0
        next  == IF ~ At_token(ts, paren, {"LPAREN"}) THEN paren
                 ELSE parser_expect(ts, IF sized THEN parser_advance(open) ELSE open, "RPAREN")
    IN  IF name.type # "IDENTIFIER" \/ type.type = "none" \/ next = Failed THEN Fail(p)
        ELSE [next EXCEPT !.ast.columns =
                 Append(@, ast_create_column_def(name.value, token_to_data_type(type.type), size))]

RECURSIVE ColumnDefs(_, _)
ColumnDefs(ts, p) ==
    LET next == parser_parse_column_def(ts, p)
    IN  IF Len(next.ast.columns) > LIST_SIZE THEN Overrun
        ELSE IF At_token(ts, next, {"COMMA"}) THEN ColumnDefs(ts, parser_advance(next))
        ELSE next

TableName(ts, p) ==
    IF At_token(ts, p, {"IDENTIFIER"})
    THEN [parser_advance(p) EXCEPT !.ast.table = parser_current_token(ts, p).value]
    ELSE Fail(p)

Start(ts, p, kind) == parser_expect(ts, [p EXCEPT !.ast.kind = kind], kind)

parser_parse_select(ts, p) ==
    LET list == parser_parse_column_list(ts, Start(ts, p, "SELECT"))
    IN  OptionalWhere(ts, TableName(ts, parser_expect(ts, list, "FROM")))

parser_parse_insert_unordered(ts, p) ==
    LET table  == TableName(ts, parser_expect(ts, Start(ts, p, "INSERT"), "INTO"))
        list   == parser_parse_column_list(ts, parser_expect(ts, table, "LPAREN"))
        values == parser_parse_value_list(ts, parser_expect(ts, list, "RPAREN"))
    IN  parser_expect(ts, values, "RPAREN")

parser_parse_insert(ts, p) ==
    LET table  == TableName(ts, parser_expect(ts, Start(ts, p, "INSERT"), "INTO"))
        list   == parser_parse_column_list(ts, parser_expect(ts, table, "LPAREN"))
        behind == parser_expect(ts, parser_expect(ts, list, "RPAREN"), "VALUES")
        values == parser_parse_value_list(ts, parser_expect(ts, behind, "LPAREN"))
    IN  parser_expect(ts, values, "RPAREN")

parser_parse_create_table(ts, p) ==
    LET table == TableName(ts, parser_expect(ts, Start(ts, p, "CREATE"), "TABLE"))
    IN  parser_expect(ts, ColumnDefs(ts, parser_expect(ts, table, "LPAREN")), "RPAREN")

parser_parse_delete(ts, p) ==
    OptionalWhere(ts, TableName(ts, parser_expect(ts, Start(ts, p, "DELETE"), "FROM")))

Parse(ts) ==
    LET p == [current |-> 1, ast |-> NoAst]
        type == parser_current_token(ts, p).type
    IN  CASE type = "SELECT" -> parser_parse_select(ts, p)
          [] type = "INSERT" -> parser_parse_insert(ts, p)
          [] type = "CREATE" -> parser_parse_create_table(ts, p)
          [] type = "DELETE" -> parser_parse_delete(ts, p)
          [] OTHER           -> Failed

\* parser_create and parser_parse, once for a text.
parser_parse(ts, ast) ==
    /\ tokens' = ts
    /\ statement' = Parse(ts)
    /\ meant' = ast

ParserNext ==
    /\ tokens = << >>
    /\ \/ \E a \in Statements : parser_parse(TextOf(a), a)
       \/ \E ts \in Texts : parser_parse(ts, NoAst)

ParserSpec == ParserInit /\ [][ParserNext]_parserVars

-----------------------------------------------------------------------------
(* Properties                                                              *)

FitsItsLists(ast) == Len(ast.columns) <= LIST_SIZE /\ Len(ast.values) <= LIST_SIZE

\* Parsing takes back writing: the text of a statement is parsed to that
\* statement, read to its end, if its lists are no longer than the arrays they
\* are collected in, and passes the end of one otherwise (parser.c:183, 235 and
\* 555 allocate 100 slots, nobody tests the count); and whatever text is
\* accepted, with words missing, doubled or put in place of others, its tree is
\* that of a statement the parser knows.  parser_parse and below,
\* parser.c:179-663.
ParsesWhatWasWritten ==
    /\ meant # NoAst =>
          statement = IF FitsItsLists(meant) THEN [current |-> Len(tokens), ast |-> meant] ELSE Overrun
    /\ statement \notin {Failed, Overrun} =>
          LET text == Written(statement.ast)
          IN  Parse(text) = [current |-> Len(text) + 1, ast |-> statement.ast]
=============================================================================
