---------------------------- MODULE RumorMessage ----------------------------
(*****************************************************************************)
(* The bytes of a Rumor message (src/opentok/rumor.js): a size, a type, a    *)
(* counted list of addresses, a counted list of headers, and the rest is     *)
(* data. Lengths have two bytes and counts have one. A byte has Base values, *)
(* 256 in the code; a string is the sequence of its bytes, which is what the *)
(* text encoder and decoder make of it. A frame of the WebSocket is a whole  *)
(* message, so one that is cut short is left out.                            *)
(*****************************************************************************)
EXTENDS Naturals, Sequences, SequencesExt

CONSTANT Base

ASSUME BaseAssumption == Base \in Nat \ {0, 1}

MessageType == [SUBSCRIBE |-> 0, UNSUBSCRIBE |-> 1, MESSAGE |-> 2, CONNECT |-> 3,
                DISCONNECT |-> 4, PING |-> 7, PONG |-> 8, STATUS |-> 9]

\* A message: headers is a function from keys to values.
RumorMessage(type, toAddress, headers, data) ==
    [type |-> MessageType[type], toAddress |-> toAddress, headers |-> headers, data |-> data]

NoHeaders == <<>>
ConnectMessage(headers)     == RumorMessage("CONNECT", <<>>, headers, <<>>)
DisconnectMessage           == RumorMessage("DISCONNECT", <<>>, NoHeaders, <<>>)
SubscribeMessage(topics)    == RumorMessage("SUBSCRIBE", topics, NoHeaders, <<>>)
UnsubscribeMessage(topics)  == RumorMessage("UNSUBSCRIBE", topics, NoHeaders, <<>>)
MessageMessage(topics, message, headers) == RumorMessage("MESSAGE", topics, headers, message)
PingMessage                 == RumorMessage("PING", <<>>, NoHeaders, <<>>)

-----------------------------------------------------------------------------
\* What a typed array keeps of a number.
Uint8(n) == n % Base

\* A string with its length.
Counted(str) == <<Uint8(Len(str) \div Base), Uint8(Len(str))>> \o str

\* What two bytes can count.
Base2 == Base * Base

\* The four bytes of the size of what follows them.
Size(rest) ==
    LET n == Len(rest)
    IN  <<Uint8(n \div (Base2 * Base)), Uint8(n \div Base2), Uint8(n \div Base), Uint8(n)>>

\* Headers are written in the order they were set, which nothing reads.
serialize(m) ==
    LET keys == SetToSeq(DOMAIN m.headers)
        rest == <<0, 0, Uint8(m.type), Uint8(Len(m.toAddress))>>
                \o FlattenSeq([i \in 1..Len(m.toAddress) |-> Counted(m.toAddress[i])])
                \o <<Uint8(Len(keys))>>
                \o FlattenSeq([i \in 1..Len(keys) |->
                                 Counted(keys[i]) \o Counted(m.headers[keys[i]])])
                \o m.data
    IN  Size(rest) \o rest

\* Mutant: the last byte is left out.
Read1Short(r) ==
    LET n == r.bytes[r.offset] * Base + r.bytes[r.offset + 1]
    IN  [r EXCEPT !.strs = Append(@, SubSeq(r.bytes, r.offset + 2, r.offset + n)),
                  !.offset = @ + 2 + n]

\* Read one more string.
Read1(r) ==
    LET n == r.bytes[r.offset] * Base + r.bytes[r.offset + 1]
    IN  [r EXCEPT !.strs = Append(@, SubSeq(r.bytes, r.offset + 2, r.offset + 1 + n)),
                  !.offset = @ + 2 + n]

\* Read n strings from an offset.
ReadStrings(bytes, offset, n) ==
    LET read[i \in 0..n] == IF i = 0 THEN [bytes |-> bytes, offset |-> offset, strs |-> <<>>]
                            ELSE Read1(read[i - 1])
    IN  read[n]

\* The headers of n keys, each with its value behind it: of two with one key the later
\* one stays.
HeadersOf(strs, n) ==
    [k \in {strs[2 * i - 1] : i \in 1..n} |-> strs[2 * Max({i \in 1..n : strs[2 * i - 1] = k})]]

deserialize(bytes) ==
    LET addresses == ReadStrings(bytes, 9, bytes[8])
        headerlen == bytes[addresses.offset]
        params    == ReadStrings(bytes, addresses.offset + 1, 2 * headerlen)
    IN  [type      |-> bytes[7],
         toAddress |-> addresses.strs,
         headers   |-> HeadersOf(params.strs, headerlen),
         data      |-> SubSeq(bytes, params.offset, Len(bytes))]

-----------------------------------------------------------------------------
\* The messages the format has room for.
Fits(m) ==
    /\ m.type < Base /\ Len(m.toAddress) < Base /\ Cardinality(DOMAIN m.headers) < Base
    /\ \A i \in 1..Len(m.toAddress) : Len(m.toAddress[i]) < Base2
    /\ \A k \in DOMAIN m.headers : Len(k) < Base2 /\ Len(m.headers[k]) < Base2
    /\ Len(serialize(m)) - 4 < Base2 * Base2

\* Whatever fits reads back as it was written, and its size is what follows the size.
RoundTrip(m) ==
    LET bytes == serialize(m)
    IN  /\ deserialize(bytes) = m
        /\ ((bytes[1] * Base + bytes[2]) * Base + bytes[3]) * Base + bytes[4] = Len(bytes) - 4
=============================================================================
