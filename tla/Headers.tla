------------------------------ MODULE Headers ------------------------------
(***************************************************************************)
(* Headers of crates/h11r/src/headers.rs, one buffer for all the bytes of a *)
(* field section, with copy_section and serialize_request of wire/head.rs   *)
(* and set_connection_option of wire/fields.rs.  Bytes are the symbols of   *)
(* Syntax; a range excludes its first position and includes its last.       *)
(***************************************************************************)
EXTENDS Syntax, FiniteSets

CONSTANTS Names, Values,  \* of the fields that may be pushed
          Sections,       \* the field lists that may be received
          MaxCalls        \* bound on the calls

ASSUME HeadersAssumption ==
    /\ Names \subseteq Seq(Symbols)
    /\ Values \subseteq Seq(Symbols)
    /\ Sections \subseteq Seq(Seq(Symbols) \X Seq(Symbols))
    /\ MaxCalls \in Nat

VARIABLES headers,        \* the Headers
          calls           \* calls so far

Abstract == INSTANCE FieldList WITH list <- <<>>, sendable <- TRUE, sent <- <<>>

ByteRange(from, length) == [start |-> from, end |-> from + length]

Slice(bytes, range) == SubSeq(bytes, range.start + 1, range.end)

(* The pairs of HeadersIter.                                                *)
iter(h) ==
    [i \in DOMAIN h.fields |->
        <<Slice(h.bytes, h.fields[i].name), Slice(h.bytes, h.fields[i].value)>>]

new == [bytes |-> <<>>, fields |-> <<>>, valid |-> TRUE]

(* Mutant: validity is that of the last field.                              *)
PushForgetsInvalid(h, name, value) ==
    [bytes |-> h.bytes \o name \o value,
     fields |-> Append(h.fields, [name |-> ByteRange(Len(h.bytes), Len(name)),
                                  value |-> ByteRange(Len(h.bytes \o name), Len(value))]),
     valid |-> Abstract!valid_name(name) /\ Abstract!valid_value(value)]

push(h, name, value) ==
    [bytes |-> h.bytes \o name \o value,
     fields |-> Append(h.fields, [name |-> ByteRange(Len(h.bytes), Len(name)),
                                  value |-> ByteRange(Len(h.bytes \o name), Len(value))]),
     valid |-> h.valid /\ Abstract!valid_name(name) /\ Abstract!valid_value(value)]

(* The bytes of the fields that go stay, and so does the cached validity.   *)
retain(h, keep) ==
    [h EXCEPT !.fields = Selected(@, {i \in DOMAIN @ : iter(h)[i] \in keep})]

is_valid(h) == h.valid \/ Abstract!AllValid(iter(h))

----------------------------------------------------------------------------
(* A received section: the start line, then for each field its name, ": ",  *)
(* its value and the line end, which = and ctl stand for.                   *)
Line(field) == field[1] \o <<"=", "ows">> \o field[2] \o <<"ctl">>

SectionBytes(list) ==
    LET upto[i \in 0..Len(list)] == IF i = 0 THEN <<"name", "ctl">> ELSE upto[i - 1] \o Line(list[i])
    IN  upto

(* httparse's fields, as ranges of the section.                             *)
ParsedFields(list) ==
    [i \in DOMAIN list |->
        LET at == Len(SectionBytes(list)[i - 1])
        IN  [name |-> ByteRange(at, Len(list[i][1])),
             value |-> ByteRange(at + Len(list[i][1]) + 2, Len(list[i][2]))]]

Shift(range, by) == [start |-> range.start - by, end |-> range.end - by]

(* copy_section and from_section: the bytes from the first name to the last *)
(* value, which are not checked before they are sent.                       *)
copy_section(section, parsed) ==
    LET start == IF parsed = <<>> THEN 0 ELSE parsed[1].name.start
        end == IF parsed = <<>> THEN 0 ELSE parsed[Len(parsed)].value.end
    IN  [bytes |-> SubSeq(section, start + 1, end),
         fields |-> [i \in DOMAIN parsed |-> [name |-> Shift(parsed[i].name, start),
                                              value |-> Shift(parsed[i].value, start)]],
         valid |-> FALSE]

----------------------------------------------------------------------------
(* set_connection_option.                                                   *)
Concat(seqs) ==
    LET upto[i \in 0..Len(seqs)] == IF i = 0 THEN <<>> ELSE upto[i - 1] \o seqs[i]
    IN  upto[Len(seqs)]

Join(options) ==
    Concat([i \in DOMAIN options |->
        IF i = Len(options) THEN options[i] ELSE options[i] \o <<",", "ows">>])

set_connection_option(h, option) ==
    LET list == iter(h)
        connection == {i \in DOMAIN list : list[i][1] = <<"connection">>}
        lines == Selected(list, connection)
        found == Concat([i \in DOMAIN lines |-> elements(lines[i][2], FALSE)])
        others == Selected(found, {i \in DOMAIN found : found[i] \notin Abstract!Persistence \cup {<<>>}})
    IN  push(retain(h, {list[i] : i \in DOMAIN list \ connection}),
             <<"connection">>, Join(Append(others, option)))

----------------------------------------------------------------------------
(* serialize_request: the order in which the fields are written.  host_at   *)
(* is that of the last Host, 0 without one.                                 *)
host_at(list) ==
    LET hosts == InOrder(list, {i \in DOMAIN list : list[i][1] = <<"host">>})
    IN  IF hosts = <<>> THEN 0 ELSE hosts[Len(hosts)] - 1

serialize_request(list, host) ==
    (IF host + 1 \in DOMAIN list THEN <<list[host + 1]>> ELSE <<>>)
        \o Selected(list, DOMAIN list \ {host + 1})

----------------------------------------------------------------------------
Init == headers = new /\ calls = 0

Receive(section) ==
    headers' = copy_section(SectionBytes(section)[Len(section)], ParsedFields(section))

Push(name, value) == headers' = push(headers, name, value)

Retain(keep) == headers' = retain(headers, keep)

SetOption(option) == headers' = set_connection_option(headers, option)

Next ==
    /\ calls < MaxCalls /\ calls' = calls + 1
    /\ \/ \E section \in Sections : Receive(section)
       \/ \E name \in Names, value \in Values : Push(name, value)
       \/ \E keep \in SUBSET {iter(headers)[i] : i \in DOMAIN headers.fields} : Retain(keep)
       \/ \E option \in Abstract!Persistence : SetOption(option)

Spec == Init /\ [][Next]_<<headers, calls>>

----------------------------------------------------------------------------
List == INSTANCE FieldList WITH list <- iter(headers), sendable <- is_valid(headers),
                                sent <- serialize_request(iter(headers), host_at(iter(headers)))

(* Shared bytes, ranges and the cached validity are a list of fields: what  *)
(* retain leaves behind in the buffer and what a parse copied around the    *)
(* fields never shows, the cache never vouches for a field that is invalid, *)
(* choosing the persistence option keeps every other option and field, and  *)
(* a request is written with every field once, Host first and the others in *)
(* their order.                                                             *)
IsFieldList == List!Spec

=============================================================================
