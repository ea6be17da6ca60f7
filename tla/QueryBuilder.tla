---------------------------- MODULE QueryBuilder ----------------------------
(***************************************************************************)
(* NewQueryWithServerAddr, NewQuery and the query options of src/query.go.    *)
(* Of the message the model keeps what the options change: the ID, the       *)
(* additional section, and len, the number that dns.Msg.Len returns.         *)
(***************************************************************************)
EXTENDS Integers, Sequences, FiniteSets

CONSTANTS
  Protocols,         \* the protocols of server addresses
  Names,             \* domain names: [valid, fqdn, length]
  QueryOptionLists,  \* the options of a call: sequences of Options
  IDs                \* bound: the message IDs

Uint16 == 0..65535

Options ==
  [kind : {"edns0"}, size : Uint16, DO : BOOLEAN, padding : BOOLEAN]
    \cup [kind : {"id"}, id : Uint16]
    \cup {[kind |-> "fails"]}

ASSUME BuilderAssumption ==
  /\ Names \subseteq [valid : BOOLEAN, fqdn : BOOLEAN, length : Nat]
  /\ QueryOptionLists \subseteq Seq(Options)
  /\ IDs \subseteq Uint16

\* NewQuery passes a zero ServerAddr, whose protocol is the empty string.
NewQuery == ""

VARIABLES
  proto, name, options,   \* the arguments of the call
  stage,                  \* "encode", "message", "options" or "done"
  applied,                \* how many options were applied
  query,                  \* the message under construction
  err                     \* "nil", "idna" or "option"

args == <<proto, name, options>>
builderVars == <<args, stage, applied, query, err>>

Nil == [id |-> 0, len |-> 0, extra |-> <<>>]
OPTs == [type : {"OPT"}, size : Uint16, DO : BOOLEAN,
         padding : {<<>>} \cup {<<n>> : n \in 0..127}]

-----------------------------------------------------------------------------

\* IDNA encode the domain name.
NewQuery_Encode ==
  /\ stage = "encode"
  /\ IF name.valid THEN stage' = "message" /\ UNCHANGED err
     ELSE stage' = "done" /\ err' = "idna"
  /\ UNCHANGED <<args, applied, query>>

\* dns.Fqdn adds the final dot, unless dns.IsFqdn finds one.
Fqdn == IF name.fqdn THEN name.length ELSE name.length + 1

\* The bytes of header and question: a name of n characters takes n + 1 bytes, the
\* root takes one, and type and class take four.
questionLen(n) == 12 + (IF n <= 1 THEN 1 ELSE n + 1) + 4

\* Mutant: DNS over HTTPS uses a random ID, too.
defaultID_Random == IDs

\* DNS over HTTPS leaves the ID at zero, the others use dns.Id.
defaultID == IF proto = "doh" THEN {0} ELSE IDs

\* Create the message.
NewQuery_Message ==
  /\ stage = "message"
  /\ \E id \in defaultID :
       query' = [id |-> id, len |-> questionLen(Fqdn), extra |-> <<>>]
  /\ stage' = "options"
  /\ UNCHANGED <<args, applied, err>>

\* Mutant: the four bytes of the option itself are forgotten.
remainder_NoOption(n) == ((128 - (n % 2^16)) % 2^16) % 128

\* The padding for a message of n bytes, in the arithmetic of uint16.
remainder(n) == ((128 - ((n + 4) % 2^16)) % 2^16) % 128

\* QueryOptionEDNS0: SetEdns0 adds an OPT record of eleven bytes; the padding
\* option goes to the OPT record that IsEdns0 finds, the last one.
EDNS0(o) ==
  LET n   == query.len + 11
      pad == remainder(n)
      OPT == [type |-> "OPT", size |-> o.size, DO |-> o.DO,
              padding |-> IF o.padding THEN <<pad>> ELSE <<>>]
  IN  query' = [query EXCEPT !.extra = Append(@, OPT),
                             !.len = IF o.padding THEN n + 4 + pad ELSE n]

\* QueryOptionID
ID(o) == query' = [query EXCEPT !.id = o.id]

\* Mutant: an option that fails does not end the loop.
NewQuery_Fails_GoesOn ==
  /\ stage = "options" /\ applied < Len(options)
  /\ options[applied + 1].kind = "fails"
  /\ applied' = applied + 1
  /\ UNCHANGED <<args, stage, query, err>>

\* The loop over the options; an option that fails ends it and the call.
NewQuery_Fails ==
  /\ stage = "options" /\ applied < Len(options)
  /\ options[applied + 1].kind = "fails"
  /\ err' = "option" /\ stage' = "done"
  /\ query' = Nil
  /\ UNCHANGED <<args, applied>>

NewQuery_Option ==
  /\ stage = "options" /\ applied < Len(options)
  /\ LET o == options[applied + 1]
     IN  \/ o.kind = "edns0" /\ EDNS0(o)
         \/ o.kind = "id" /\ ID(o)
  /\ applied' = applied + 1
  /\ UNCHANGED <<args, stage, err>>

NewQuery_Return ==
  /\ stage = "options" /\ applied = Len(options)
  /\ stage' = "done"
  /\ UNCHANGED <<args, applied, query, err>>

BuilderTerminated == stage = "done" /\ UNCHANGED builderVars

BuilderInit ==
  /\ proto \in Protocols \cup {NewQuery}
  /\ name \in Names /\ options \in QueryOptionLists
  /\ stage = "encode" /\ applied = 0
  /\ query = Nil /\ err = "nil"

BuilderNext ==
  \/ NewQuery_Encode \/ NewQuery_Message
  \/ NewQuery_Option \/ NewQuery_Fails \/ NewQuery_Return
  \/ BuilderTerminated

BuilderSpec == BuilderInit /\ [][BuilderNext]_builderVars

-----------------------------------------------------------------------------
\* Properties

\* The construction keeps its state well formed.
BuilderTypeOK ==
  /\ proto \in Protocols \cup {NewQuery}
  /\ name \in Names /\ options \in QueryOptionLists
  /\ stage \in {"encode", "message", "options", "done"}
  /\ applied \in 0..Len(options)
  /\ query \in [id : Uint16, len : Nat, extra : Seq(OPTs)]
  /\ err \in {"nil", "idna", "option"}

\* The options of a kind among the ones applied so far.
Applied(kind) == {i \in 1..applied : options[i].kind = kind}

\* The last option of a kind that was applied satisfies P.
LastHas(kind, P(_)) ==
  \E i \in Applied(kind) : (\A j \in Applied(kind) : j <= i) /\ P(options[i])

\* The last EDNS(0) option that was applied asks for padding.
LastPads == LastHas("edns0", LAMBDA o : o.padding)

\* The query ends at the end of a block if its last EDNS(0) option asks for that.
LastBlockFilled == LastPads /\ err = "nil" => query.len % 128 = 0

\* "Clients SHOULD pad queries to the closest multiple of 128 octets": whatever the
\* length of the name and the options before and after, a query whose last EDNS(0)
\* option asks for padding has such a length, and no padding is longer than needed or
\* has a negative length, which would panic.
PaddedToBlock ==
  /\ LastBlockFilled
  /\ \A i \in 1..Len(query.extra) :
       query.extra[i].padding \in {<<>>} \cup {<<n>> : n \in 0..127}

\* The ID is the one of the last QueryOptionID; without it, it is zero for DNS over
\* HTTPS, wherever the option stands among the others.
IDRule ==
  (stage = "done" /\ err = "nil") =>
     IF Applied("id") # {} THEN LastHas("id", LAMBDA o : o.id = query.id)
     ELSE proto = "doh" => query.id = 0

\* A call returns a query with every option applied, or an error, caused by the
\* name or by an option, and no query.
AllOrNothing ==
  stage = "done" =>
    \/ err = "nil" /\ applied = Len(options) /\ Applied("fails") = {}
       /\ Len(query.extra) = Cardinality({i \in 1..Len(options) : options[i].kind = "edns0"})
    \/ err # "nil" /\ query = Nil
=============================================================================
