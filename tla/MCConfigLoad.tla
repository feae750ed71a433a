----------------------------- MODULE MCConfigLoad -----------------------------
\* The inputs of the run of ConfigLoad.
EXTENDS ConfigLoad, TLC

MCLowerOf == [t \in {"APP", "ENV", "DB", "URI", "HTTP", "PORT", "RATE", "DEBUG", "DEV", "LOCAL"} |->
    CASE t = "APP" -> "app" [] t = "ENV" -> "env" [] t = "DB" -> "db" [] t = "URI" -> "uri"
      [] t = "HTTP" -> "http" [] t = "PORT" -> "port" [] t = "RATE" -> "rate" [] t = "DEBUG" -> "debug"
      [] t = "DEV" -> "dev" [] t = "LOCAL" -> "local"]
MCIntOf == "0" :> "0" @@ "1" :> "1" @@ "8080" :> "8080" @@ "007" :> "7"
MCFloatOf == [t \in {"0", "1", "7", "8080", "007", "80.9", "1.10", "inf"} |->
    CASE t = "0" -> "0.0" [] t = "1" -> "1.0" [] t \in {"7", "007"} -> "7.0"
      [] t = "8080" -> "8080.0" [] t = "80.9" -> "80.9" [] t = "1.10" -> "1.1" [] t = "inf" -> "inf"]
MCTruncOf == [t \in {"0.0", "1.0", "7.0", "8080.0", "80.5", "80.9", "1.1"} |->
    CASE t = "0.0" -> "0" [] t = "1.0" -> "1" [] t = "7.0" -> "7" [] t = "8080.0" -> "8080"
      [] t \in {"80.5", "80.9"} -> "80" [] t = "1.1" -> "1"]
MCUpper == {"APP", "ENV", "DB", "URI", "HTTP", "PORT", "RATE", "DEBUG", ""}
MCUriMasked == "db://u:p@h" :> "db://u:***@h"
MCPlaceholders == {"***"}

N(p, v) == [path |-> p, value |-> v]
F(nodes) == [root |-> Dict, nodes |-> nodes]
Of(v) == [root |-> v, nodes |-> <<>>]
DB(uri) == <<N(<<"db">>, Dict), N(<<"db", "uri">>, uri)>>
Http(port) == <<N(<<"http">>, Dict), N(<<"http", "port">>, port)>>

DefaultFiles == {
    F(DB(Str("")) \o Http(Number("80")) \o <<N(<<"debug">>, Bool("False"))>>),
    F(DB(Str("db://u:p@h"))
        \o <<N(<<"HTTP">>, Dict), N(<<"HTTP", "a">>, Dict), N(<<"HTTP", "a", "b">>, Number("1"))>>
        \o Http(Null) \o <<N(<<"debug">>, Number("0"))>>),
    F(<<N(<<"db">>, List(<<N(<<"URI">>, Str("x")), N(<<"name">>, Str("db://u:p@h"))>>)),
        N(<<"app">>, Str("a"))>>)}
DevFiles == {
    Of(Null), Of(List(<<N(<<>>, Str("x"))>>)),
    F(Http(Float("80.5")) \o <<N(<<"app">>, Dict)>>),
    F(DB(Str("s")) \o <<N(<<"http">>, Dict), N(<<"debug">>, Str("on"))>>)}
LocalFiles == {
    F(DB(Str("l"))), F(DB(Str("***")) \o <<N(<<"app">>, Dict)>>),
    F(DB(Dict) \o <<N(<<"db", "uri", "a">>, Str("l")), N(<<"http">>, Str("x"))>>)}

FileSets ==
    LET Some(f, cs) == {<<>>} \cup {f :> c : c \in cs} IN
    {d @@ e @@ l : d \in Some("default", DefaultFiles), e \in Some("dev", DevFiles),
                   l \in Some("local", LocalFiles)}

V(name, text) == [name |-> <<"APP">> \o name, text |-> text]
EnvSets == {
    {},
    {V(<<"ENV">>, "DEV")},
    {V(<<"ENV">>, "LOCAL"), V(<<"APP", "ENV">>, "x"), V(<<"HTTP", "PORT">>, "1")},
    {V(<<"ENV">>, "dev"), V(<<"DB", "URI">>, "db://u:p@h"), V(<<"DB">>, "x")},
    {V(<<"ENV">>, "DEV"), V(<<"DB", "URI">>, "8080"), V(<<"db", "URI">>, "no")},
    {V(<<"ENV">>, "DEV"), V(<<"DB", "URI">>, "e"), V(<<"DEBUG">>, "no"), V(<<"", "DB">>, "x")},
    {V(<<"DB", "URI">>, "1.10"), V(<<"HTTP", "PORT">>, "80.9"), V(<<"HTTP", "RATE">>, "007")},
    {V(<<"DB", "URI">>, "e"), V(<<"HTTP", "PORT">>, "inf"), V(<<"HTTP", "RATE">>, "1.10")},
    {V(<<"DB", "URI">>, "e"), V(<<"HTTP", "PORT">>, "007"), V(<<"DEBUG">>, "1"),
     [name |-> <<"OTHER", "DB">>, text |-> "x"]}}

G(key, text) == [key |-> key, text |-> text]
FlagLists == {<<>>, <<G(<<"http", "port">>, "8080"), G(<<>>, "x")>>, <<G(<<"debug">>, "off")>>,
              <<G(<<"db", "uri">>, "f")>>, <<G(<<"http", "port">>, "x"), G(<<"http">>, "1")>>,
              <<G(<<"app">>, ""), G(<<"app", "env">>, "yes")>>}

Field(tp) == [tp |-> tp, optional |-> FALSE, default |-> TRUE]
AppConfig ==
    <<>> :> Field("class") @@ <<"db">> :> [Field("class") EXCEPT !.default = FALSE]
    @@ <<"db", "uri">> :> Field("str") @@ <<"http">> :> Field("class")
    @@ <<"http", "port">> :> [Field("int") EXCEPT !.optional = TRUE]
    @@ <<"http", "rate">> :> Field("float") @@ <<"debug">> :> Field("bool")
    @@ <<"app">> :> Field("dict")

MCGivens ==
    LET With(deploy, required, strict) ==
            [prefix : {"APP"}, deploy : {deploy}, required : {required}, strict : {strict},
             sensitive : {{"uri"}}, model : {AppConfig},
             files : FileSets, env : EnvSets, flags : FlagLists] IN
    With(<<"ENV">>, {<<"db", "uri">>}, TRUE)
        \cup {g \in With(<<"ENV">>, {}, FALSE) : g.flags = <<>>}
        \cup {g \in With(<<>>, {}, TRUE) : g.flags = <<>> /\ DOMAIN g.files = {"default"}}
=============================================================================
