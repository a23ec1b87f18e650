------------------------------ MODULE MCLibrary ------------------------------
(* The data structures under the server, for TLC: the AVL tree of the           *)
(* container, the lists and their memory, the heap, tree and ring of src/base,  *)
(* json-c and the pulse generator of ServoBlaster.  They share nothing, so one  *)
(* run explores them side by side: a behaviour picks a part and takes the steps *)
(* of that part only, and what is checked is the sum of the parts.              *)
EXTENDS MCAvlTree, MCServod, DList, Heap, LinkHash, LinkList, JsonObjects

CONSTANTS l1, l2, n1, n2, n3, n4, m1, NONE

VARIABLES part,
          root, rootFreed, added,                                \* BTree
          tok, c, num, obj, result, value, text, input, odd      \* JsonTokener

btreeVars == <<root, rootFreed, added>>
tokVars == <<tok, c, num, obj, result, value, text, input, odd>>

-----------------------------------------------------------------------------
MCNode == {n1, n2, n3, n4}
MCDatum == {1, 2}
MCValue == 1 .. 3
MCFieldName == {"a", "b", "c", "d"}
MCVal == {1}
MCHash == [a |-> 0, b |-> 3, c |-> 2, d |-> 5]

MCList == {l1, l2}
MCArea == 1 .. 3

MCObject == 1 .. 3
MCField == {m1}

Trees == INSTANCE BTree WITH Item <- 1 .. 3, Leaf <- NULL, MaxNodes <- 5
\* The words of json-c, cut to two letters.
Writer == INSTANCE JsonGrammar WITH max_depth <- 3, Inputs <- {},
    json_null_str <- <<"n", "u">>, json_nan_str <- <<"N", "a">>, json_true_str <- <<"t", "r">>,
    json_false_str <- <<"f", "a">>, json_inf_str <- <<"I", "n">>

-----------------------------------------------------------------------------
\* What is fed to the tokener: every text over some letters up to a length, in
\* pieces of every length ...
Every(alphabet, n) == [script |-> << >>, alphabet |-> alphabet, limit |-> n,
                       terminated |-> "NUL" \in alphabet, doc |-> NULL]
Digits == Every({"1", "0", "-", ".", "e", "+", " "}, 4)
Texts == {Digits,
          Every({"[", "]", "{", "}", ",", ":", "\"", "1"}, 5),
          Every({"[", "n", "N", "u", "a", "t", "f", "r", "]", ","}, 5),
          Every({"-", "I", "i", "n", "t", "r", "[", "]", ","}, 5),
          Every({"/", "*", "\n", "1", "[", "]", "NUL"}, 5),
          Every({"[", "\"", "'", "\\", "n", "u", "X", "NUL"}, 5),
          Every({"{", "\"", "'", "\\", "n", ":", "1", "}"}, 5)}

\* ... strings of up to three escapes and letters, whole or cut off by the end ...
Pieces == {<<"\\", "u", "H", "X">>, <<"\\", "u", "L", "X">>, <<"\\", "u", "X", "L">>, <<"\\", "n">>, <<"n">>}
Escaping == {FlattenSeq(ps) : ps \in UNION {[1 .. n -> Pieces] : n \in 1 .. 3}}
Fixed(s) == [script |-> s, alphabet |-> {}, limit |-> Len(s), terminated |-> "NUL" \in ToSet(s), doc |-> NULL]
Strings == {Fixed(<<"\"">> \o s \o <<e>>) : s \in Escaping, e \in {"\"", "NUL"}}
\* ... and what json-c itself writes for these documents.
Scalar == {<<"null">>, <<"bool", TRUE>>, <<"bool", FALSE>>, <<"int", <<"-", "1">>>>,
           <<"double", <<"1", ".", "0">>>>, <<"str", << >>>>, <<"str", <<"\\", "\"">>>>,
           <<"str", <<"/", "\n", "'", "CTRL", "n">>>>}
Nest == <<"obj", << << <<"n">>, <<"arr", << <<"arr", << >>>>, <<"null">> >> >> >>,
                    << <<"u">>, <<"obj", << >> >> >> >> >>
Documents == {<<"arr", <<x, y>>>> : x \in Scalar, y \in {<<"null">>, <<"str", <<"\t", "\\">>>>}}
             \cup {<<"obj", << <<k, x>> >> >> : k \in {<< >>, <<"\\">>, <<"\"", "u">>}, x \in Scalar}
             \cup {<<"arr", << >>>>, <<"obj", << >>>>, Nest}
Written(d, flags) == LET s == Writer!to_json_string(d, 0, flags)
                     IN [script |-> s, alphabet |-> {}, limit |-> Len(s), terminated |-> FALSE, doc |-> d]
Feeds == Texts \cup Strings \cup {Written(d, f) : d \in Documents, f \in [spaced : BOOLEAN, pretty : BOOLEAN]}

Tokener == INSTANCE JsonGrammar WITH max_depth <- 3, Inputs <- Feeds,
    json_null_str <- <<"n", "u">>, json_nan_str <- <<"N", "a">>, json_true_str <- <<"t", "r">>,
    json_false_str <- <<"f", "a">>, json_inf_str <- <<"I", "n">>

-----------------------------------------------------------------------------
Part == {"avl", "list", "heap", "btree", "dlist", "hash", "tokener", "objects", "servod"}

\* The parts not taken stay in one initial state.
LibraryInit ==
    /\ part \in Part
    /\ Init /\ ListInit /\ hp_init /\ Trees!bt_init /\ dl_init
    /\ HashInit /\ ObjInit
    /\ Tokener!TokInit /\ (part # "tokener" => ~tok.strict /\ input = Digits)
    /\ init_ctrl_data

Avl == part = "avl" /\ Next
       /\ UNCHANGED <<listVars, heapVars, btreeVars, dlistVars, hashVars, tokVars, objVars, servodVars>>
LinkedLists == part = "list" /\ ListNext
               /\ UNCHANGED <<tree, heapVars, btreeVars, dlistVars, hashVars, tokVars, objVars, servodVars>>
PriorityQueue == part = "heap" /\ HeapNext
        /\ UNCHANGED <<tree, listVars, btreeVars, dlistVars, hashVars, tokVars, objVars, servodVars>>
BinaryTree == part = "btree" /\ Trees!BTreeNext
        /\ UNCHANGED <<tree, listVars, heapVars, dlistVars, hashVars, tokVars, objVars, servodVars>>
Ring == part = "dlist" /\ DListNext
        /\ UNCHANGED <<tree, listVars, heapVars, btreeVars, hashVars, tokVars, objVars, servodVars>>
Table == part = "hash" /\ HashNext
         /\ UNCHANGED <<tree, listVars, heapVars, btreeVars, dlistVars, tokVars, objVars, servodVars>>
Parser == part = "tokener" /\ Tokener!TokNext
          /\ UNCHANGED <<tree, listVars, heapVars, btreeVars, dlistVars, hashVars, objVars, servodVars>>
Values == part = "objects" /\ ObjNext
          /\ UNCHANGED <<tree, listVars, heapVars, btreeVars, dlistVars, hashVars, tokVars, servodVars>>
Pulse == part = "servod" /\ ServodNext
         /\ UNCHANGED <<tree, listVars, heapVars, btreeVars, dlistVars, hashVars, tokVars, objVars>>

LibraryNext == /\ UNCHANGED part
               /\ \/ Avl \/ LinkedLists \/ PriorityQueue \/ BinaryTree \/ Ring \/ Table \/ Parser \/ Values \/ Pulse
LibrarySpec ==
    LibraryInit /\ [][LibraryNext]_<<part, tree, listVars, heapVars, btreeVars, dlistVars, hashVars,
                                     tokVars, objVars, servodVars>>

-----------------------------------------------------------------------------
\* The properties of the parts that are instances, each stated in its module.
SearchTree == Trees!SearchTree
VerdictOfGrammar == Tokener!VerdictOfGrammar
RoundTrip == Tokener!RoundTrip
=============================================================================
