----------------------------- MODULE MCDatabase -----------------------------
(***************************************************************************)
(* Components of the database, checked in one run: the buffer pool (phase  *)
(* 4), the versions (phase 6), the record store (phase 1), the index       *)
(* (phase 2), lexer and parser (phase 3). They call one another nowhere in *)
(* the code: a behaviour is one of program, and the variables of the       *)
(* others keep their first values.                                         *)
(***************************************************************************)
EXTENDS BufferPool, MVCC, RecordStore, BPlusTree, SqlFrontEnd

CONSTANTS k1, k2, k3, v1, v2

VARIABLE program

\* Two of three keys of the store share a chain.
TwoChains == (k1 :> 0) @@ (k2 :> 0) @@ (k3 :> 1)

\* Texts of up to three pieces, and longer ones of few kinds of characters.
Pieces == {<<"o", "r">>, <<"O", "r">>, <<"a">>, <<"_", "b">>, <<"1">>, <<"2", "0">>, <<".">>, <<Quote>>,
           <<" ">>, <<Newline>>, <<"-">>, <<"<">>, <<">">>, <<"!">>, <<"=">>, <<",">>, <<"#">>}

Quoted == {<<"a">>, <<Quote>>, <<"-">>, <<Newline>>}

LexerInputs ==
    UNION {{FlattenSeq(s) : s \in [1 .. n -> Pieces]} : n \in 1 .. 3}
      \cup UNION {{FlattenSeq(s) : s \in [1 .. n -> Quoted]} : n \in 4 .. 6}

SomeKeywords == {<<"O", "R">>, <<"O", "R", "A">>}

Capital == [c \in {"o", "r", "a", "b"} |->
             CASE c = "o" -> "O" [] c = "r" -> "R" [] c = "a" -> "A" [] OTHER -> "B"]

\* Statements of every kind, with and without conditions, with lists that fill
\* the array of a list, and with one more element than it takes.
Col(x) == [kind |-> "IDENTIFIER", value |-> x]
Num(x) == [kind |-> "NUMBER", value |-> x]
Str(x) == [kind |-> "STRING", value |-> x]

Columns    == {<<Col("*")>>, <<Col("a")>>, <<Col("a"), Col("b")>>, <<Col("a"), Col("b"), Col("c")>>}
ValueLists == {<<Num("1")>>, <<Str("s"), Num("2")>>, <<Num("1"), Num("2"), Str("s")>>}
Conditions == {<< >>} \cup {<<[left |-> Col("a"), op |-> op, right |-> r]>> :
                              op \in {"=", "<"}, r \in {Num("1"), Col("b")}}
SomeNumbers == ("1" :> 1) @@ ("2" :> 2) @@ ("3" :> 3) @@ ("3.5" :> 3) @@ ("10" :> 10)

ColumnDefinitions ==
    UNION {[1 .. n -> {[name |-> "a", type |-> "INT", size |-> 0],
                       [name |-> "b", type |-> "VARCHAR", size |-> 10]}] : n \in 1 .. 3}

SqlStatements ==
    UNION {[kind : {"SELECT"}, table : {"t"}, columns : Columns, values : {<< >>}, where : Conditions],
           [kind : {"INSERT"}, table : {"t"}, columns : Columns, values : ValueLists, where : {<< >>}],
           [kind : {"CREATE"}, table : {"t"}, columns : ColumnDefinitions, values : {<< >>}, where : {<< >>}],
           [kind : {"DELETE"}, table : {"t"}, columns : {<< >>}, values : {<< >>}, where : Conditions]}

\* Texts that are one token away from such a statement.
SqlWords == {Word("COMMA"), Word("AND"), Word("RPAREN"), Token("IDENTIFIER", "c"),
             Token("NUMBER", "3.5"), Word("EOF")}

SqlTexts ==
    UNION {UNION {{[t EXCEPT ![i] = w], InsertAt(t, i, w), RemoveAt(t, i)} :
                    i \in DOMAIN t, w \in SqlWords} : t \in {TextOf(s) : s \in SqlStatements}}

databaseVars == <<bufferVars, mvccVars, storeVars, btreeVars, lexerVars, parserVars, program>>

Init ==
    /\ program \in {"pages", "versions", "store", "index", "lexer", "parser"}
    /\ program # "pages" => faulty = FALSE
    /\ BufferInit /\ MvccInit /\ StoreInit /\ BTreeInit /\ LexerInit
    /\ ParserInit

Next ==
    /\ \/ /\ program = "pages" /\ BufferNext
          /\ UNCHANGED <<mvccVars, storeVars, btreeVars, lexerVars, parserVars>>
       \/ /\ program = "versions" /\ MvccNext
          /\ UNCHANGED <<bufferVars, storeVars, btreeVars, lexerVars, parserVars>>
       \/ /\ program = "store" /\ StoreNext
          /\ UNCHANGED <<bufferVars, mvccVars, btreeVars, lexerVars, parserVars>>
       \/ /\ program = "index" /\ BTreeNext
          /\ UNCHANGED <<bufferVars, mvccVars, storeVars, lexerVars, parserVars>>
       \/ /\ program = "lexer" /\ LexerNext
          /\ UNCHANGED <<bufferVars, mvccVars, storeVars, btreeVars, parserVars>>
       \/ /\ program = "parser" /\ ParserNext
          /\ UNCHANGED <<bufferVars, mvccVars, storeVars, btreeVars, lexerVars>>
    /\ UNCHANGED program

Spec == Init /\ [][Next]_databaseVars

\* Clients, record ids, keys of one chain and values of the store are interchangeable.
Symmetry == Permutations(Clients) \cup Permutations(RecordIds)
              \cup Permutations({k1, k2}) \cup Permutations({v1, v2})

\* Reading takes back writing, of the lexer's tokens and of the parser's trees.
WritingIsTakenBack == ReadsWhatWasWritten /\ ParsesWhatWasWritten
=============================================================================
