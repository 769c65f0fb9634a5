------------------------------- MODULE MCLoading -------------------------------
(* Finding frames and going through an epoch of them, one per behaviour.       *)
(*                                                                             *)
(* Frame index: datasets of three episodes: every length up to three frames,   *)
(* every way of filling shards in order, every order of the index records; and *)
(* datasets with empty episodes whose records are in episode order.  Four      *)
(* ticks per frame and a tolerance of one: windows of -1.25, 0 and 2 frames,   *)
(* of -0.25 and 0.75, and one that asks for half a frame, to be refused.       *)
(*                                                                             *)
(* Iterators: seventeen rows in batches of two, eight full batches and an      *)
(* incomplete one.                                                             *)
(*                                                                             *)
(* Orders: four episodes, one of them empty and two of one length, seven       *)
(* frames in all: chunks of two do not divide the episodes, and a buffer of    *)
(* three is refilled and then emptied in every order.                          *)
(*                                                                             *)
(* Batches: three episodes, six frames; the state has another length in two    *)
(* frames, one camera shrinks its pictures in the last episode, the other      *)
(* records only the first frames.                                              *)
(*                                                                             *)
(* Recordings: up to three messages, in either format, of a structured, an     *)
(* untyped and an undecodable topic, whole, damaged or unreadable; and up to   *)
(* two where topics clash in name or in channel and a field is bounded; each   *)
(* converted once more after a failure.                                        *)
(*                                                                             *)
(* Shares: up to four episodes split, sampled by up to five ranks, or more     *)
(* dealt out.  Shards: two downloads of lists that overlap and a restart.      *)
(* Versions: three appends of two tags and two restarts.                       *)
EXTENDS Loading, TLC

CONSTANTS Logs, TopicOrder, MaxAttempts

VARIABLES log, step, at, decoders, topics, skipped, unwritten, converted, dir, attempts

Convert == INSTANCE McapConvert WITH stage <- step, todo <- unwritten

ASSUME /\ Index!IndexAssumption /\ Epoch!LoaderAssumption
       /\ Order!OrderAssumption /\ Assembly!AssemblyAssumption
       /\ Shares!SharesAssumption /\ Remote!ShardsAssumption

From(lens, k) == IF k = 1 THEN 0 ELSE IF k = 2 THEN lens[1] ELSE lens[1] + lens[2]

Dataset(lens, shards) ==
    [k \in 1 .. 3 |-> [episode_index |-> k - 1, from |-> From(lens, k),
                       to |-> From(lens, k) + lens[k], shard |-> shards[k]]]

Shardings == {<<0, 0, 0>>, <<0, 0, 1>>, <<0, 1, 1>>, <<0, 1, 2>>}

SmallDatasets ==
    {[k \in 1 .. 3 |-> Dataset(lens, shards)[p[k]]] :
        lens \in [1 .. 3 -> {1, 3}], shards \in Shardings, p \in Permutations(1 .. 3)}
    \cup {Dataset(lens, shards) : lens \in [1 .. 3 -> {0, 2}], shards \in Shardings}

SmallWindows == {<<-5, 0, 8>>, <<-1, 3>>, <<-2>>, <<0, 2>>}

(* Loader with and without a failing row, PrefetchLoader without one. *)
Resumable == {[loader |-> "sync", bad |-> {3}], [loader |-> "sync", bad |-> {}],
              [loader |-> "prefetch", bad |-> {}]}

OneDataset == {Dataset(<<1, 3, 1>>, <<0, 0, 1>>)}

(* Either loader, PrefetchLoader with a row that cannot be assembled. *)
BothLoaders == {[loader |-> "sync", bad |-> {}], [loader |-> "prefetch", bad |-> {3}]}

FourEpisodes == <<[start |-> 0, len |-> 3], [start |-> 3, len |-> 0],
                  [start |-> 3, len |-> 1], [start |-> 4, len |-> 3]>>

ThreeEpisodes == <<[from |-> 0, to |-> 3], [from |-> 3, to |-> 5], [from |-> 5, to |-> 6]>>
StateAndReward ==
    [state |-> [g \in 0 .. 5 |-> CASE g = 4 -> <<8, 4, 1>> [] g = 5 -> <<10>>
                                   [] OTHER -> <<2 * g, g>>],
     reward |-> [g \in 0 .. 5 |-> <<g>>]]
StateStats == [state |-> [mean |-> <<2, 0>>, std |-> <<2, 0>>],
               reward |-> [mean |-> <<>>, std |-> <<1>>]]
Sizes == [top |-> [g \in 0 .. 5 |-> IF g = 5 THEN <<32, 24>> ELSE <<64, 48>>],
          wrist |-> [g \in 0 .. 3 |-> <<32, 24>>]]
FourJobs == <<<<0, 2, 1>>, <<3, 1>>, <<3, 5, 4>>, <<5>>>>

NoWindow == [none |-> <<>>]
WindowSpecs == {NoWindow, <<>>, [state |-> <<-1, 0>>, top |-> <<-1, 0, 1>>]}
Ordinary == [batch_size |-> 3, window |-> NoWindow, cameras |-> {}, output |-> "numpy",
          goal |-> FALSE, normalize |-> {}, buffer |-> "owned"]
Requests ==
    {[Ordinary EXCEPT !.window = w, !.cameras = c, !.goal = b, !.buffer = f] :
        w \in WindowSpecs, c \in {{}, {"top"}, {"top", "wrist"}}, b \in BOOLEAN,
        f \in {"owned", "iosurface", "none"}}
    \cup {[Ordinary EXCEPT !.window = w, !.cameras = {"top"}, !.output = o, !.normalize = n] :
        w \in WindowSpecs, o \in {"numpy", "torch", "mlx", "numpy_zerocopy", "tf"},
        n \in {{}, {"state"}, {"reward"}, {"force"}}}
    \cup {[Ordinary EXCEPT !.batch_size = 0]}

TopicNames == <<<<"/", "/">>, <<"/", "a">>, <<"/", "a", "/", "b">>, <<"/", "a", "_", "b">>>>
Channel(k, encoding, schema) == [topic |-> TopicNames[k], encoding |-> encoding, schema |-> schema]
Line(type, array, name) ==
    [base |-> type, array |-> array, name |-> <<name>>, constant |-> FALSE, bounded |-> FALSE]
Block(name, lines) == [name |-> name, lines |-> lines]
StateBlocks ==
    <<Block(<<>>, <<[Line(<<"int32">>, <<"single">>, "MOVING") EXCEPT !.constant = TRUE],
                    Line(<<"uint8">>, <<"single">>, "mode"),
                    Line(<<"geometry", "Point">>, <<"single">>, "tip"),
                    Line(<<"int16">>, <<"variable">>, "codes"),
                    Line(<<"bool">>, <<"fixed", 2>>, "on")>>),
      Block(<<"geometry", "Point">>, <<Line(<<"float64">>, <<"single">>, "x"),
                                       Line(<<"string">>, <<"single">>, "frame")>>)>>
BoundBlocks ==
    <<Block(<<>>, <<[Line(<<"int32">>, <<"variable">>, "b") EXCEPT !.bounded = TRUE],
                    Line(<<"uint8">>, <<"single">>, "n")>>)>>

Num(b) == <<"num", b>>
Flag(b) == <<"bool", b>>
Obj(items) == <<"obj", items>>
Key(k, v) == <<<<k>>, v>>
State(mode, x, codes) ==
    Obj(<<Key("mode", Num(<<mode>>)),
          Key("tip", Obj(<<Key("x", x), Key("frame", <<"str", <<116, 105>>>>)>>)),
          Key("codes", <<"seq", codes>>),
          Key("on", <<"arr", <<Flag(TRUE), Flag(FALSE)>>>>)>>)
Far == Num(<<1, 2, 3, 4, 5, 6, 7, 64>>)
Message(channel, sent) ==
    [channel |-> channel, sent |-> sent, damage |-> 0, le |-> TRUE, unreadable |-> FALSE]

Plain == <<Channel(2, "cdr", StateBlocks), Channel(3, "json", <<>>), Channel(1, "cdr", <<>>)>>
PlainPool ==
    {Message(1, State(7, Far, <<Num(<<5, 0>>)>>)),
     [Message(1, State(8, <<"null">>, <<>>)) EXCEPT !.le = FALSE],
     [Message(1, State(9, Far, <<>>)) EXCEPT !.damage = 1],
     Message(2, Obj(<<Key("v", Num(<<1>>)), Key("o", Obj(<<Key("k", Flag(TRUE))>>))>>)),
     Message(2, Obj(<<Key("v", Flag(FALSE))>>)),
     Message(2, Obj(<<Key("v", <<"str", <<120>>>>), Key("l", <<"arr", <<Num(<<3>>), <<"null">>>>>>)>>)),
     [Message(2, Obj(<<Key("v", Num(<<2>>))>>)) EXCEPT !.damage = 1],
     [Message(2, Obj(<<Key("v", Num(<<4>>))>>)) EXCEPT !.unreadable = TRUE],
     Message(3, Num(<<6>>))}

Clashing == <<Channel(2, "cdr", BoundBlocks), Channel(3, "json", <<>>), Channel(4, "json", <<>>),
              Channel(2, "json", <<>>)>>
ClashingPool ==
    {Message(1, Obj(<<Key("b", <<"seq", <<Num(<<1, 0, 0, 0>>)>>>>), Key("n", Num(<<2>>))>>)),
     Message(2, Obj(<<Key("v", Num(<<1>>))>>)),
     Message(2, Obj(<<<<<<"o", "k">>, Num(<<2>>)>>, Key("o", Obj(<<Key("k", Num(<<3>>))>>))>>)),
     Message(3, Obj(<<Key("w", Flag(TRUE))>>)), Message(4, Obj(<<Key("w", Flag(TRUE))>>))}

(* The messages of a bag are stored the other way round. *)
Timed(format, messages) ==
    [k \in DOMAIN messages |-> messages[k] @@ ("time" :> IF format = "mcap" THEN k ELSE 9 - k)]
Recordings ==
    {[format |-> f, channels |-> Plain, messages |-> Timed(f, m)] :
        f \in {"mcap", "bag"}, m \in UNION {[1 .. n -> PlainPool] : n \in 0 .. 3}}
    \cup {[format |-> f, channels |-> Clashing, messages |-> Timed(f, m)] :
        f \in {"mcap", "bag"}, m \in UNION {[1 .. n -> ClashingPool] : n \in 1 .. 2}}

Dealt == [kind : {"split"}, episodes : {0, 1, 3, 4}, ranks : {1}, val_percent : {0, 20, 50, 100, 500},
          shuffle : {TRUE}, drop_last : {FALSE}]
    \cup [kind : {"sampler"}, episodes : 0 .. 4, ranks : {1, 2, 3, 5}, val_percent : {0},
          shuffle : BOOLEAN, drop_last : BOOLEAN]
    \cup [kind : {"round_robin"}, episodes : {0, 3, 7}, ranks : {1, 3, 5}, val_percent : {0},
          shuffle : {FALSE}, drop_last : {FALSE}]

Overlapping == {<<"f1", "meta">>, <<"f1", "meta", "f2", "meta">>, <<"f3", "meta", "f2", "meta">>}

convertVars == <<log, step, at, decoders, topics, skipped, unwritten, converted, dir, attempts>>

(* Conversions (McapConvert.tla) are one more part. *)
MCInit ==
    /\ Init
    /\ IF part = "convert" THEN TRUE ELSE log = CHOOSE l \in Logs : TRUE
    /\ Convert!Init

(* Conversions, shares, downloads and appends come to an end. *)
Ended == part \in {"convert", "shares", "remote", "versions"} /\ UNCHANGED <<vars, convertVars>>

MCNext ==
    \/ Next /\ UNCHANGED convertVars
    \/ part = "convert" /\ Convert!Next /\ UNCHANGED vars
    \/ Ended

MCSpec == MCInit /\ [][MCNext]_<<vars, convertVars>>

(* What a conversion writes (McapConvert.tla). *)
TablesFaithful == Convert!TablesFaithful
=============================================================================
