----------------------------- MODULE FieldList -----------------------------
(***************************************************************************)
(* What Headers promises (crates/h11r/src/headers.rs): a list of names and  *)
(* values, and whether all of them may be sent.                             *)
(***************************************************************************)
EXTENDS Syntax

CONSTANTS Names, Values,  \* of the fields that may be pushed
          Sections        \* the field lists that may be received

VARIABLES list,           \* pairs of a name and a value
          sendable,       \* Headers::is_valid
          sent            \* the order in which a request writes the fields

FieldOf(name, value) == <<name, value>>

valid_name(name) == IsToken(name)

valid_value(value) ==
    /\ \A i \in DOMAIN value : value[i] # "ctl"
    /\ value # <<>> => value[1] # "ows" /\ value[Len(value)] # "ows"

AllValid(fields) == \A i \in DOMAIN fields : valid_name(fields[i][1]) /\ valid_value(fields[i][2])

NotConnection(field) == field[1] # <<"connection">>

(* The options of all the Connection fields.                                *)
Options(fields) ==
    UNION {LET found == elements(fields[i][2], FALSE) IN {found[j] : j \in DOMAIN found} \ {<<>>} :
           i \in {i \in DOMAIN fields : ~NotConnection(fields[i])}}

Persistence == {<<"close">>, <<"keep-alive">>}

(* Host comes first; of several, one does.                                  *)
HostFirst(fields, order) ==
    LET hosts == {i \in DOMAIN fields : fields[i][1] = <<"host">>}
    IN  IF hosts = {} THEN order = fields
        ELSE \E i \in hosts :
                order = <<fields[i]>> \o SubSeq(fields, 1, i - 1) \o SubSeq(fields, i + 1, Len(fields))

Init == list = <<>> /\ sendable = TRUE /\ sent = <<>>

Receive(section) == list' = section

Push(name, value) == list' = Append(list, FieldOf(name, value))

Retain(keep) == list' = Selected(list, {i \in DOMAIN list : list[i] \in keep})

(* One Connection field is left, the last, with the other options and the   *)
(* new one; a list that may be sent still may, for send_response checks it  *)
(* before.                                                                  *)
SetOption(option) ==
    /\ list' # <<>>
    /\ SubSeq(list', 1, Len(list') - 1) = Selected(list, {i \in DOMAIN list : NotConnection(list[i])})
    /\ ~NotConnection(list'[Len(list')])
    /\ Options(list') = (Options(list) \ Persistence) \cup {option}
    /\ sendable => sendable'

Next ==
    /\ \/ \E section \in Sections : Receive(section)
       \/ \E name \in Names, value \in Values : Push(name, value)
       \/ \E keep \in SUBSET {list[i] : i \in DOMAIN list} : Retain(keep)
       \/ \E option \in Persistence : SetOption(option)
    /\ sendable' = AllValid(list')
    /\ HostFirst(list', sent')

Spec == Init /\ [][Next]_<<list, sendable, sent>>
=============================================================================
