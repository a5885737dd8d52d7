------------------------------- MODULE Target -------------------------------
(***************************************************************************)
(* Request targets and Host values: valid_request_target and authority_port *)
(* of crates/h11r/src/wire/target.rs, against the grammar of RFC 3986 and   *)
(* RFC 9112 section 3.2.  A value is a sequence of symbols:                 *)
(*   0 3 5 6   digits                                                       *)
(*   a v       letters; a is a hexadecimal digit, v begins an IPvFuture     *)
(*   . +       unreserved and sub-delim, both allowed in a scheme           *)
(*   * : [ ] % / #    the bytes themselves, * a sub-delim                   *)
(*   ip6       the text ::1, which std::net takes for an IPv6 address       *)
(*   ctl       a byte that is not visible                                   *)
(***************************************************************************)
EXTENDS Integers, Sequences

DigitOf == [s \in {"0", "3", "5", "6"} |->
               CASE s = "0" -> 0 [] s = "3" -> 3 [] s = "5" -> 5 [] s = "6" -> 6]

Digits == DOMAIN DigitOf

Letters == {"a", "v"}

HexDigits == Digits \cup {"a"}

SchemeBytes == Letters \cup Digits \cup {".", "+"}

RegBytes == Letters \cup Digits \cup {".", "+", "*"}

MaxPort == 65535

All(s, set) == \A i \in DOMAIN s : s[i] \in set

(* The part before a position and the part after it.                        *)
Before(s, i) == SubSeq(s, 1, i - 1)

Behind(s, i) == SubSeq(s, i + 1, Len(s))

StartsWith(s, set) == s # <<>> /\ s[1] \in set

(* The symbols that are or begin with a colon.                              *)
Colons == {":", "ip6"}

(* The first position of a symbol of the set, 0 without one.                *)
Position(s, symbols) ==
    LET found == {i \in DOMAIN s : s[i] \in symbols}
    IN  IF found = {} THEN 0 ELSE CHOOSE i \in found : \A j \in found : i <= j

----------------------------------------------------------------------------
(* Option<Option<&[u8]>>: invalid, no port, or a port.                      *)
Invalid == [ok |-> FALSE, some |-> FALSE, port |-> <<>>]

NoPort == [ok |-> TRUE, some |-> FALSE, port |-> <<>>]

Port(digits) == [ok |-> TRUE, some |-> TRUE, port |-> digits]

(* u16::from_str of digits: an empty port and one beyond u16 are refused.   *)
Number(port) ==
    LET number[i \in 0..Len(port)] ==
            IF i = 0 THEN 0 ELSE 10 * number[i - 1] + DigitOf[port[i]]
    IN  number[Len(port)]

(* Mutant: the port wraps to 16 bits.                                       *)
WrappedPort(port) == port # <<>> /\ Number(port) % (MaxPort + 1) # 0

valid_tcp_port(port) == port # <<>> /\ Number(port) \in 1..MaxPort

has_scheme(target) ==
    LET colon == Position(target, Colons)
    IN  StartsWith(target, Letters) /\ colon # 0 /\ All(Before(target, colon), SchemeBytes)

valid_ip_literal(s) ==
    LET dot == Position(s, {"."})
    IN  \/ s = <<"ip6">>
        \/ /\ StartsWith(s, {"v"})
           /\ dot > 2
           /\ All(SubSeq(s, 2, dot - 1), HexDigits)
           /\ Behind(s, dot) # <<>>
           /\ All(Behind(s, dot), RegBytes \cup Colons)

PercentTriple(s, at) == at + 2 <= Len(s) /\ {s[at + 1], s[at + 2]} \subseteq HexDigits

(* valid_percent_encoded, its only use.                                     *)
valid_reg_name(s) ==
    LET loop[at \in 1..(Len(s) + 3)] ==
            IF at > Len(s) THEN TRUE
            ELSE IF s[at] = "%" THEN PercentTriple(s, at) /\ loop[at + 3]
            ELSE s[at] \in RegBytes /\ loop[at + 1]
    IN  loop[1]

WithPort(s) == IF All(s, Digits) THEN Port(s) ELSE Invalid

bracketed_port(s) ==
    LET close == Position(s, {"]"})
        rest == Behind(s, close)
    IN  CASE close = 0 \/ ~valid_ip_literal(SubSeq(s, 2, close - 1)) -> Invalid
          [] rest = <<>> -> NoPort
          [] rest[1] # ":" -> Invalid
          [] OTHER -> WithPort(Tail(rest))

authority_port(s) ==
    LET colon == Position(s, {":"})
    IN  CASE StartsWith(s, {"["}) -> bracketed_port(s)
          [] colon # 0 /\ Position(Behind(s, colon), {":"}) # 0 -> Invalid
          [] ~valid_reg_name(IF colon = 0 THEN s ELSE Before(s, colon)) -> Invalid
          [] colon = 0 -> NoPort
          [] OTHER -> WithPort(Behind(s, colon))

Methods == {"CONNECT", "OPTIONS", "GET"}

valid_request_target(method, target) ==
    /\ target # <<>>
    /\ \A i \in DOMAIN target : target[i] \notin {"ctl", "#"}
    /\ CASE method = "CONNECT" ->
               LET port == authority_port(target) IN port.some /\ valid_tcp_port(port.port)
         [] target = <<"*">> -> method = "OPTIONS"
         [] OTHER -> StartsWith(target, {"/"}) \/ has_scheme(target)

----------------------------------------------------------------------------
(* RFC 3986 section 3.2.                                                    *)
IsIpLiteral(s) ==
    /\ Len(s) >= 2 /\ s[1] = "[" /\ s[Len(s)] = "]"
    /\ LET inner == SubSeq(s, 2, Len(s) - 1)
       IN  \/ inner = <<"ip6">>
           \/ \E dot \in 3..(Len(inner) - 1) :
                 /\ inner[1] = "v" /\ inner[dot] = "."
                 /\ All(SubSeq(inner, 2, dot - 1), HexDigits)
                 /\ All(Behind(inner, dot), RegBytes \cup Colons)

(* Percent signs, each with two hexadecimal digits of its own.              *)
IsRegName(s) ==
    \A i \in DOMAIN s : IF s[i] = "%" THEN \A j \in {i + 1, i + 2} : j \in DOMAIN s /\ s[j] \in HexDigits
                        ELSE s[i] \in RegBytes

IsHost(s) == IsIpLiteral(s) \/ IsRegName(s)

(* Every way to derive host [ ":" port ].                                   *)
Authorities(s) ==
    (IF IsHost(s) THEN {NoPort} ELSE {})
    \cup {Port(Behind(s, i)) : i \in {i \in DOMAIN s : /\ s[i] = ":" /\ IsHost(Before(s, i))
                                                        /\ All(Behind(s, i), Digits)}}

----------------------------------------------------------------------------
(* A Host value or a CONNECT target is split as the grammar splits it: it   *)
(* is accepted if and only if it derives, and the port is the only one it   *)
(* can have.                                                                *)
AuthorityExact(value) ==
    Authorities(value) = IF authority_port(value).ok THEN {authority_port(value)} ELSE {}

(* A target is accepted if and only if its method allows its form: CONNECT  *)
(* an authority with a port a tunnel can reach, whatever leading zeros and  *)
(* digits beyond 16 bits say, OPTIONS the asterisk, and no other method it. *)
FormExact(value) ==
    LET port == {Number(p.port) : p \in {p \in Authorities(value) : p.some}}
        visible == \A i \in DOMAIN value : value[i] \notin {"ctl", "#"}
        absolute == \E i \in 2..Len(value) : /\ value[i] \in Colons /\ value[1] \in Letters
                                             /\ All(Before(value, i), SchemeBytes)
    IN  \A method \in Methods :
            valid_request_target(method, value) <=>
                /\ visible
                /\ \/ method = "CONNECT" /\ port \cap 1..MaxPort # {}
                   \/ method = "OPTIONS" /\ value = <<"*">>
                   \/ method # "CONNECT" /\ (absolute \/ (value # <<>> /\ value[1] = "/"))
=============================================================================
