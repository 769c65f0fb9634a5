------------------------------ MODULE McapConvert ------------------------------
(***************************************************************************)
(* Conversion of a recording to one table per topic: convert and what it    *)
(* calls in crates/pyroboframes-core/src/mcap.rs, and the convert of        *)
(* src/rosbag.rs, which shares the writer.                                  *)
(*                                                                         *)
(* A message has the value its sender sent, as a tree, a time and a         *)
(* channel; damage is the number of bytes its payload lost.  A topic is     *)
(* the sequence of its characters, a path in a message the sequence of its  *)
(* dotted parts.                                                            *)
(***************************************************************************)
EXTENDS Integers, Sequences, FiniteSets, SequencesExt, FiniteSetsExt

-----------------------------------------------------------------------------
(***************************************************************************)
(* Decoding of CDR payloads against a ros2msg definition,                   *)
(* crates/pyroboframes-core/src/ros2.rs.                                    *)
(*                                                                         *)
(* A definition is its blocks of lines, split at the separators, the root   *)
(* without a name.  A type is the sequence of the parts of its name: <<"i4">> *)
(* or <<"geometry", "Point">>.  A payload is a sequence of bytes; a number   *)
(* is its bytes, least significant first, a text its characters.            *)
(***************************************************************************)
(* The primitive types by name, with the bytes a value takes; Str is a text. *)
Width == [bool |-> 1, uint8 |-> 1, int16 |-> 2, int32 |-> 4, float32 |-> 4,
          int64 |-> 8, float64 |-> 8]
IsPrimitive(base) == Len(base) = 1 /\ base[1] \in DOMAIN Width \cup {"string"}

(* A line that holds a "=" is taken for a constant, which is not serialized;
   the bound of "int32[<=5]" or "string<=10" holds one too. *)
parse_field(line) == IF line.constant \/ line.bounded THEN <<>> ELSE <<line>>
Fields(lines) == FlattenSeq([k \in DOMAIN lines |-> parse_field(lines[k])])

Root(blocks) == {k \in DOMAIN blocks : blocks[k].name = <<>>}
Parses(blocks) == Root(blocks) # {}

(* A block is registered by its full and by its short name, over a block
   registered before by the same one. *)
Registered(blocks, name) ==
    {k \in DOMAIN blocks : /\ blocks[k].name # <<>>
                           /\ name \in {blocks[k].name, <<Last(blocks[k].name)>>}}

(* The fields of a type, or none at all when it is not known. *)
lookup(blocks, base) ==
    LET full == Registered(blocks, base)
        short == Registered(blocks, <<Last(base)>>)
        at == IF full # {} THEN full ELSE short
    IN  [known |-> at # {}, fields |-> IF at = {} THEN <<>> ELSE Fields(blocks[Max(at)].lines)]
-----------------------------------------------------------------------------
Failed == [ok |-> FALSE]
Read(pos, value) == [ok |-> TRUE, pos |-> pos, value |-> value]

(* Cdr::align: from the start of the payload, its 4-byte header included. *)
align(pos, n) == IF pos % n = 0 THEN pos ELSE pos + n - (pos % n)

take(cdr, pos, n) ==
    IF pos + n > Len(cdr.buf) THEN Failed ELSE Read(pos + n, SubSeq(cdr.buf, pos + 1, pos + n))

(* Cdr::read_u8 .. read_f64: the bytes of a number in the header's order. *)
ReadNumber(cdr, pos, n) ==
    LET r == take(cdr, align(pos, n), n)
    IN  IF ~r.ok \/ cdr.le THEN r ELSE [r EXCEPT !.value = Reverse(@)]

(* A count with a high byte set is beyond any payload. *)
Count(bytes) == IF bytes[3] + bytes[4] = 0 THEN bytes[1] + 256 * bytes[2] ELSE 65536

(* The length of a text includes the NUL at its end. *)
read_string(cdr, pos) ==
    LET len == ReadNumber(cdr, pos, 4)
        r == IF len.ok THEN take(cdr, len.pos, Count(len.value)) ELSE Failed
    IN  IF r.ok /\ r.value # <<>> /\ Last(r.value) = 0 THEN [r EXCEPT !.value = Front(@)] ELSE r

(* NaN and the infinities, which a JSON number cannot hold. *)
NonFinite(prim, bytes) ==
    /\ prim \in {"float32", "float64"}
    /\ Last(bytes) \in {127, 255}
    /\ bytes[Len(bytes) - 1] >= IF prim = "float32" THEN 128 ELSE 240

decode_prim(cdr, pos, prim) ==
    LET r == IF prim = "string" THEN read_string(cdr, pos) ELSE ReadNumber(cdr, pos, Width[prim])
        value == CASE prim = "string" -> <<"str", r.value>>
                   [] prim = "bool" -> <<"bool", r.value # <<0>>>>
                   [] OTHER -> IF NonFinite(prim, r.value) THEN <<"null">> ELSE <<"num", r.value>>
    IN  IF r.ok THEN Read(r.pos, value) ELSE Failed

RECURSIVE decode_one(_, _, _), decode_items(_, _, _, _), decode_fields(_, _, _)

(* What a loop has read, and one value more; or nothing, when either failed. *)
Appended(acc, r) ==
    IF acc.ok /\ r.ok THEN Read(r.pos, Append(acc.value, r.value)) ELSE Failed

(* A value with its kind, or with the name of its field. *)
Tagged(tag, r) == IF r.ok THEN Read(r.pos, <<tag, r.value>>) ELSE Failed

(* n more values of a type, one after the other. *)
decode_items(cdr, acc, base, n) ==
    IF n = 0 \/ ~acc.ok THEN acc
    ELSE decode_items(cdr, Appended(acc, decode_one(cdr, acc.pos, base)), base, n - 1)

decode_array(cdr, count, base) ==
    IF count.ok THEN Tagged("arr", decode_items(cdr, Read(count.pos, <<>>), base, count.value))
    ELSE Failed

(* Of a sequence the count is read first. *)
ReadCount(r) == IF r.ok THEN Read(r.pos, Count(r.value)) ELSE Failed

decode_field(cdr, pos, f) ==
    IF f.array[1] = "single" THEN decode_one(cdr, pos, f.base)
    ELSE decode_array(cdr, IF f.array[1] = "fixed" THEN Read(pos, f.array[2])
                           ELSE ReadCount(ReadNumber(cdr, pos, 4)), f.base)

decode_fields(cdr, acc, fields) ==
    IF fields = <<>> \/ ~acc.ok THEN acc
    ELSE decode_fields(cdr, Appended(acc, Tagged(Head(fields).name,
                                                 decode_field(cdr, acc.pos, Head(fields)))),
                       Tail(fields))

decode_struct(cdr, pos, fields) == Tagged("obj", decode_fields(cdr, Read(pos, <<>>), fields))

decode_one(cdr, pos, base) ==
    IF IsPrimitive(base) THEN decode_prim(cdr, pos, base[1])
    ELSE LET type == lookup(cdr.blocks, base)
         IN  IF type.known THEN decode_struct(cdr, pos, type.fields) ELSE Failed

(* The second byte of the header tells the order of the bytes. *)
decode_cdr(blocks, data) ==
    IF Len(data) < 4 THEN Failed
    ELSE decode_struct([buf |-> data, le |-> data[2] % 2 = 1, blocks |-> blocks], 4,
                       Fields(blocks[Min(Root(blocks))].lines))
-----------------------------------------------------------------------------
(* The recorder: it writes every field of the definition, bounded or not,
   aligned as the payloads in the tests of ros2.rs are. *)
Zeros(n) == [k \in 1 .. n |-> 0]

PutNumber(w, bytes) ==
    LET buf == w.buf \o Zeros((Len(bytes) - (Len(w.buf) % Len(bytes))) % Len(bytes))
    IN  [w EXCEPT !.buf = buf \o (IF w.le THEN bytes ELSE Reverse(bytes))]
PutCount(w, n) == PutNumber(w, <<n, 0, 0, 0>>)

RECURSIVE Put(_, _)
PutAll(w, values) == FoldLeft(LAMBDA acc, v : Put(acc, v), w, values)
Put(w, v) ==
    CASE v[1] = "num" -> PutNumber(w, v[2])
      [] v[1] = "bool" -> PutNumber(w, <<IF v[2] THEN 1 ELSE 0>>)
      [] v[1] = "null" -> PutNumber(w, <<0, 0, 0, 0, 0, 0, 248, 127>>)
      [] v[1] = "str" -> LET c == PutCount(w, Len(v[2]) + 1)
                         IN  [c EXCEPT !.buf = @ \o v[2] \o <<0>>]
      [] v[1] = "arr" -> PutAll(w, v[2])
      [] v[1] = "seq" -> PutAll(PutCount(w, Len(v[2])), v[2])
      [] v[1] = "obj" -> PutAll(w, [k \in DOMAIN v[2] |-> v[2][k][2]])

Recorded(v, le) == Put([buf |-> <<0, IF le THEN 1 ELSE 0, 0, 0>>, le |-> le], v).buf

-----------------------------------------------------------------------------
(***************************************************************************)
(* The conversion.                                                          *)
(***************************************************************************)

CONSTANTS
    Logs,         \* records [format, channels, messages], format "mcap" or "bag"
    TopicOrder,   \* the topics in the order of their names
    MaxAttempts   \* bounds the conversions into one directory

VARIABLES
    log, stage, at,
    decoders,   \* one per topic met so far
    topics,     \* topics[t]: the decoded messages, [time, row]
    skipped,
    todo,       \* topics still to write
    converted,  \* the report: topic and number of messages
    dir,        \* the output directory, by file name
    attempts

convertVars == <<log, stage, at, decoders, topics, skipped, todo, converted, dir, attempts>>

Put1(f, k, v) == [x \in DOMAIN f \cup {k} |-> IF x = k THEN v ELSE f[x]]
Nothing == <<>>

Init ==
    /\ log \in Logs
    /\ stage = "reading" /\ at = 1 /\ attempts = 1
    /\ decoders = Nothing /\ topics = Nothing /\ skipped = {}
    /\ todo = <<>> /\ converted = <<>> /\ dir = Nothing

-----------------------------------------------------------------------------
Tree(v) == v[1] \in {"obj", "arr", "seq"}
Items(v) == IF v[1] = "obj" THEN v[2] ELSE [k \in DOMAIN v[2] |-> <<<<k>>, v[2][k]>>]

RECURSIVE flatten(_, _)
(* The scalars of a value by their paths; a null has none, and of two under
   one path the later stays. *)
flatten(prefix, v) ==
    IF Tree(v)
    THEN FoldLeft(LAMBDA out, item : LET more == flatten(prefix \o item[1], item[2])
                                     IN  [p \in DOMAIN out \cup DOMAIN more |->
                                            IF p \in DOMAIN more THEN more[p] ELSE out[p]],
                  Nothing, Items(v))
    ELSE IF v[1] = "null" THEN Nothing ELSE [p \in {prefix} |-> v]

(* TopicDecoder::build; in a bag a format other than cdr is not looked into.
   Protobuf, which a library decodes, is left out. *)
build(channel) ==
    CASE channel.encoding = "json" /\ log.format = "mcap" -> [kind |-> "json"]
      [] channel.encoding = "cdr" /\ channel.schema # <<>> /\ Parses(channel.schema) ->
            [kind |-> "ros2", blocks |-> channel.schema]
      [] OTHER -> [kind |-> "unsupported"]

Payload(m) ==
    LET data == Recorded(m.sent, m.le) IN SubSeq(data, 1, Len(data) - m.damage)

(* What is left of damaged JSON does not parse. *)
decode(decoder, m) ==
    IF decoder.kind = "json" THEN IF m.damage = 0 THEN Read(0, m.sent) ELSE Failed
    ELSE decode_cdr(decoder.blocks, Payload(m))

(* Messages come in the file's order, from a bag in the order of their times. *)
Order ==
    IF log.format = "mcap" THEN log.messages
    ELSE SortSeq(log.messages, LAMBDA a, b : a.time < b.time)

(* The decoder of a topic is that of the first channel met; in a bag each
   channel has its own. *)
DecoderOf(m) ==
    LET channel == log.channels[m.channel]
    IN  IF log.format = "mcap" /\ channel.topic \in DOMAIN decoders
        THEN decoders[channel.topic] ELSE build(channel)

ReadMessage ==
    LET m == Order[at]
        topic == log.channels[m.channel].topic
        decoder == DecoderOf(m)
        r == decode(decoder, m)
        before == IF topic \in DOMAIN topics THEN topics[topic] ELSE <<>>
    IN  /\ stage = "reading" /\ at <= Len(Order) /\ ~m.unreadable
        /\ at' = at + 1
        /\ decoders' = Put1(decoders, topic, decoder)
        /\ IF decoder.kind = "unsupported"
           THEN skipped' = skipped \cup {topic} /\ UNCHANGED topics
           ELSE /\ UNCHANGED skipped
                /\ topics' = IF r.ok
                             THEN Put1(topics, topic,
                                       Append(before, [time |-> m.time, row |-> flatten(<<>>, r.value)]))
                             ELSE topics
        /\ UNCHANGED <<log, stage, todo, converted, dir, attempts>>

(* A record that cannot be read, or a panic of the parser over it. *)
ReadFails ==
    /\ stage = "reading" /\ at <= Len(Order) /\ Order[at].unreadable
    /\ stage' = "failed"
    /\ UNCHANGED <<log, at, decoders, topics, skipped, todo, converted, dir, attempts>>

ReadEnds ==
    /\ stage = "reading" /\ at > Len(Order)
    /\ stage' = "writing"
    /\ todo' = SelectSeq(TopicOrder, LAMBDA t : t \in DOMAIN topics)
    /\ skipped' = skipped \cup
           (IF log.format = "bag"
            THEN {c.topic : c \in {c \in ToSet(log.channels) : build(c).kind = "unsupported"}}
            ELSE {})
    /\ UNCHANGED <<log, at, decoders, topics, converted, dir, attempts>>

-----------------------------------------------------------------------------
Letters == {"a", "b"}

(* Everything but letters and digits becomes "_", trimmed at both ends. *)
sanitize(topic) ==
    LET mapped == [k \in DOMAIN topic |-> IF topic[k] \in Letters THEN topic[k] ELSE "_"]
        kept == {k \in DOMAIN mapped : mapped[k] # "_"}
    IN  IF kept = {} THEN <<"topic">> ELSE SubSeq(mapped, Min(kept), Max(kept))

Kinds(rows, p) == {rows[k].row[p][1] : k \in {k \in DOMAIN rows : p \in DOMAIN rows[k].row}}

(* Mutant: numbers among booleans make no text of the column. *)
infer_kind_mixed(rows, p) ==
    IF "str" \in Kinds(rows, p) THEN "str"
    ELSE IF "bool" \in Kinds(rows, p) THEN "bool" ELSE "num"

infer_kind(rows, p) ==
    IF "str" \in Kinds(rows, p) \/ {"num", "bool"} \subseteq Kinds(rows, p) THEN "str"
    ELSE IF "bool" \in Kinds(rows, p) THEN "bool" ELSE "num"

leaf_to_string(leaf) == IF leaf[1] = "str" THEN leaf ELSE <<"text", leaf>>
Null == <<"null">>

Cell(kind, row, p) ==
    IF p \notin DOMAIN row THEN Null
    ELSE IF kind = "str" THEN leaf_to_string(row[p])
    ELSE IF row[p][1] = kind THEN row[p] ELSE Null

(* A column, with the values its statistics are taken over. *)
Column(rows, p) ==
    LET kind == infer_kind(rows, p)
        cells == [k \in DOMAIN rows |-> Cell(kind, rows[k].row, p)]
    IN  [kind |-> kind, cells |-> cells,
         stats |-> IF kind = "num" THEN SelectSeq(cells, LAMBDA c : c # Null) ELSE <<>>]

write_topic(rows) ==
    [log_time |-> [k \in DOMAIN rows |-> rows[k].time],
     columns |-> [p \in UNION {DOMAIN rows[k].row : k \in DOMAIN rows} |-> Column(rows, p)]]

WriteTopic ==
    LET t == Head(todo)
    IN  /\ stage = "writing" /\ todo # <<>>
        /\ dir' = Put1(dir, sanitize(t), write_topic(topics[t]))
        /\ converted' = Append(converted, [topic |-> t, messages |-> Len(topics[t])])
        /\ todo' = Tail(todo)
        /\ UNCHANGED <<log, stage, at, decoders, topics, skipped, attempts>>

(* metadata.json and stats.json, as one write: what was written, with the span
   of its times. *)
Manifest ==
    [k \in DOMAIN converted |->
        LET t == converted[k].topic
            table == write_topic(topics[t])
        IN  [topic |-> t, path |-> sanitize(t), num_rows |-> Len(topics[t]),
             log_time_start |-> Min(ToSet(table.log_time)), log_time_end |-> Max(ToSet(table.log_time)),
             columns |-> [p \in DOMAIN table.columns |-> table.columns[p].kind],
             stats |-> [p \in DOMAIN table.columns |-> table.columns[p].stats]]]

WriteManifest ==
    /\ stage = "writing" /\ todo = <<>>
    /\ dir' = Put1(dir, <<"metadata">>, Manifest)
    /\ stage' = "done"
    /\ UNCHANGED <<log, at, decoders, topics, skipped, todo, converted, attempts>>

(* The file at hand cannot be created, or is cut short; the others stay. *)
WriteFails ==
    /\ stage = "writing"
    /\ dir' \in {dir, Put1(dir, IF todo = <<>> THEN <<"metadata">> ELSE sanitize(Head(todo)), <<>>)}
    /\ stage' = "failed"
    /\ UNCHANGED <<log, at, decoders, topics, skipped, todo, converted, attempts>>

(* The caller converts again, into the same directory. *)
Retry ==
    /\ stage = "failed" /\ attempts < MaxAttempts
    /\ stage' = "reading" /\ at' = 1 /\ attempts' = attempts + 1
    /\ decoders' = Nothing /\ topics' = Nothing /\ skipped' = {}
    /\ todo' = <<>> /\ converted' = <<>>
    /\ UNCHANGED <<log, dir>>

Next == ReadMessage \/ ReadFails \/ ReadEnds \/ WriteTopic \/ WriteManifest \/ WriteFails \/ Retry
-----------------------------------------------------------------------------
RECURSIVE Leaves(_, _)
(* The scalars a sender put into a value, each with its path. *)
Leaves(path, v) ==
    IF Tree(v) THEN UNION {Leaves(path \o Items(v)[k][1], Items(v)[k][2]) : k \in DOMAIN Items(v)}
    ELSE IF v[1] = "null" THEN {} ELSE {<<path, v>>}
Paths(m) == {leaf[1] : leaf \in Leaves(<<>>, m.sent)}

On(t) == {c \in ToSet(log.channels) : c.topic = t}
Sent(t) == SelectSeq(Order, LAMBDA m : log.channels[m.channel].topic = t)
Whole(t) == SelectSeq(Sent(t), LAMBDA m : m.damage = 0)

(* What the converter does not tell apart: topics of one file name, paths with
   the same dots, channels of one topic; and the lines it skips. *)
Unambiguous(t) ==
    /\ \A u \in DOMAIN topics : sanitize(u) = sanitize(t) => u = t
    /\ \A m \in ToSet(Whole(t)) : Cardinality(Paths(m)) = Cardinality(Leaves(<<>>, m.sent))
    /\ Cardinality(On(t)) = 1
    /\ \A c \in On(t) : \A block \in ToSet(c.schema) : \A line \in ToSet(block.lines) : ~line.bounded

Supported(t) ==
    \E c \in On(t) : \/ c.encoding = "json" /\ log.format = "mcap"
                     \/ c.encoding = "cdr" /\ c.schema # <<>>

(* The table has a row for every message, in order, and every scalar sent is
   in it, as it was or as its text; nothing else is. *)
Holds(table, sent) ==
    /\ table.log_time = [k \in DOMAIN sent |-> sent[k].time]
    /\ DOMAIN table.columns = UNION {Paths(sent[k]) : k \in DOMAIN sent}
    /\ \A k \in DOMAIN sent :
          /\ \A leaf \in Leaves(<<>>, sent[k].sent) :
                table.columns[leaf[1]].cells[k] \in {leaf[2], leaf_to_string(leaf[2])}
          /\ \A p \in DOMAIN table.columns \ Paths(sent[k]) : table.columns[p].cells[k] = Null

Listed(entry, sent) ==
    /\ entry.num_rows = Len(sent)
    /\ \A k \in DOMAIN sent : sent[k].time \in entry.log_time_start .. entry.log_time_end
    /\ \A p \in DOMAIN entry.stats : entry.columns[p] = "num" =>
          Len(entry.stats[p]) = Cardinality({k \in DOMAIN sent : p \in Paths(sent[k])})

(* "writes one Parquet table per topic": after a conversion, whatever failed
   before it, a topic is reported as skipped, or all its messages were damaged,
   or its table holds what was sent and the manifest says so.  A recording
   that cannot be read leaves no file. *)
TablesFaithful ==
    /\ stage = "done" => \A t \in {c.topic : c \in ToSet(log.channels)} :
          Sent(t) # <<>> /\ Unambiguous(t) =>
            IF Supported(t) /\ Whole(t) # <<>>
            THEN /\ sanitize(t) \in DOMAIN dir
                 /\ Holds(dir[sanitize(t)], Whole(t))
                 /\ \E entry \in ToSet(dir[<<"metadata">>]) : entry.topic = t /\ Listed(entry, Whole(t))
            ELSE /\ t \notin {converted[k].topic : k \in DOMAIN converted}
                 /\ t \in skipped <=> ~Supported(t)
    /\ (\E m \in ToSet(log.messages) : m.unreadable) => dir = Nothing
=============================================================================
