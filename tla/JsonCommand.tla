---------------------------- MODULE JsonCommand ----------------------------
(* What HandleJsonMessage (Connection.c) and ParseJsonObj (MessageSinkCdc.c)   *)
(* do with the objects of a parsed datagram: every call of the library that    *)
(* changes a count is a step, in the order of the code.                        *)
EXTENDS JsonObjects

CONSTANTS v, user, sequence, cmd, channels   \* the fields of a command

VARIABLES jobj,     \* the parsed datagram
          fields,   \* the fields it has; "stale" and "other" tell a sequence, a command apart
          pc        \* what comes next

cmdVars == <<heap, held, jobj, fields, pc>>

\* The tokener hands over one object that owns its fields; the array has an element.
Doc == [v |-> 2, user |-> 3, sequence |-> 4, cmd |-> 5, channels |-> 6, element |-> 7]
Parsed(present) ==
    LET Named == {<<v, Doc.v>>, <<user, Doc.user>>, <<sequence, Doc.sequence>>, <<cmd, Doc.cmd>>,
                  <<channels, Doc.channels>>}
        of(k) == (CHOOSE n \in Named : n[1] = k)[2]
        there == {1} \cup {of(k) : k \in present} \cup (IF channels \in present THEN {Doc.element} ELSE {})
    IN [EmptyHeap EXCEPT !.count = [o \in Object |-> IF o \in there THEN 1 ELSE 0],
                         !.kind[1] = "object",
                         !.members = [o \in Object |->
                             IF o = 1 THEN [k \in present |-> of(k)]
                             ELSE IF o = Doc.channels /\ channels \in present
                             THEN [i \in {1} |-> Doc.element] ELSE NoMembers]]

CmdInit == /\ fields \in [present : SUBSET {v, user, sequence, cmd, channels},
                          stale : BOOLEAN, active : BOOLEAN]
           /\ heap = Parsed(fields.present) /\ jobj = 1 /\ pc = "version"
           /\ held = [o \in Object |-> IF o = 1 THEN 1 ELSE 0]

Step(from, to) == pc = from /\ pc' = to /\ UNCHANGED <<jobj, fields>>
Release(o) == heap' = json_object_put(heap, o)
Keep == UNCHANGED <<heap, held>>
Has(k) == k \in fields.present

\* The checks on the version, the user, the sequence number and the command.
Version == \/ Has(v) /\ Has(user) /\ Step("version", "sequence") /\ Keep
           \/ Has(v) /\ ~Has(user) /\ Step("version", "put jobj") /\ Keep
           \/ ~Has(v) /\ Step("version", "done") /\ Keep
Sequence == \/ Has(sequence) /\ ~fields.stale /\ Has(cmd) /\ Step("sequence", "command") /\ Keep
            \/ Has(sequence) /\ (fields.stale \/ ~Has(cmd)) /\ Step("sequence", "put seqObj") /\ Keep
            \/ ~Has(sequence) /\ Step("sequence", "put pUserObj") /\ Keep
Command == \/ fields.active /\ Has(channels) /\ Step("command", "put pChannel") /\ Keep
           \/ ~(fields.active /\ Has(channels)) /\ Step("command", "put command") /\ Keep

\* json_object_put of objects that json_object_object_get returned.
PutChannel == Step("put pChannel", "put pChannelArray") /\ Release(Doc.element) /\ UNCHANGED held
PutChannelArray == Step("put pChannelArray", "put command") /\ Release(Doc.channels) /\ UNCHANGED held
PutCommand == Step("put command", "put seqObj") /\ Release(Doc.cmd) /\ UNCHANGED held
PutSeqObj == Step("put seqObj", "put pUserObj") /\ Release(Doc.sequence) /\ UNCHANGED held
PutUserObj == Step("put pUserObj", "put jobj") /\ Release(Doc.user) /\ UNCHANGED held
PutJobj == Step("put jobj", "done") /\ Release(jobj) /\ held' = [held EXCEPT ![jobj] = 0]

CmdNext == \/ Version \/ Sequence \/ Command
           \/ PutChannel \/ PutChannelArray \/ PutCommand \/ PutSeqObj \/ PutUserObj \/ PutJobj
CmdSpec == CmdInit /\ [][CmdNext]_cmdVars

\* json_object.h:283 of json_object_object_get: "Ownership of the returned value is retained
\* by obj (do not do json_object_put unless you have done a json_object_get)".  So no object
\* is released once more after it was deleted.
NoneReleasedAfterDeletion == ~heap.misuse
=============================================================================
