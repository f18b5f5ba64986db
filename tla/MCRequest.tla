------------------------------- MODULE MCRequest -------------------------------
(* An instance of Request for TLC, with scaled widths: 0 .. 2 for keys,     *)
(* 0 .. 3 for the level, -4 .. 3 for int64_t and 0 .. 7 for uint64_t.       *)
EXTENDS Request

Str(s) == Value("String", s)
Map(members) == Value("Map", members)

MCKnown == [light |-> 1, paint |-> 2]

Name(n) == [is |-> "string", name |-> n, tenths |-> 0]
Number(x) == [is |-> "number", name |-> "", tenths |-> x]
Other == [is |-> "other", name |-> "", tenths |-> 0]

List(items) == [is |-> "list", items |-> items]
Bad(why) == [is |-> why, items |-> {}]

MCToken ==
    [nothing   |-> Bad("empty"),
     forged    |-> Bad("signature"),
     garbled   |-> Bad("undecodable"),
     expired   |-> Bad("expired"),
     light     |-> List({Name("light"), Name("unknown")}),
     both      |-> List({Number(19), Number(20)}),
     unfit     |-> List({Number(-10)}),
     odd       |-> List({Name("light"), Other})]
MCTokens == DOMAIN MCToken

Argument(type, x, point) ==
    [type |-> type, number |-> x, empty |-> FALSE, point |-> point,
     digits |-> ~point, minus |-> x \in Int /\ x < 0]

Text(numbers, closed, rest, hsv) ==
    [numbers |-> numbers, closed |-> closed, rest |-> rest, hsv |-> hsv]

F(keys, target, argument, optional) ==
    [keys |-> keys, target |-> target, argument |-> argument, optional |-> optional]

MCField ==
    [asFloat  |-> F({1}, "level", Argument("Float", 290, FALSE), FALSE),
     asText   |-> F({1}, "level", Argument("String", 150, TRUE), FALSE),
     negative |-> F({1}, "level", Argument("String", -50, TRUE), FALSE),
     huge     |-> F({1}, "level", Argument("Int", 600, FALSE), FALSE),
     nan      |-> F({2}, "level", Argument("String", NaN, TRUE), FALSE),
     red      |-> F({1, 2}, "color", Text(3, TRUE, FALSE, HSV(36000, 9996, 5)), FALSE),
     half     |-> F({2}, "color", Text(3, FALSE, FALSE, HSV(12004, NaN, 10001)), FALSE),
     look     |-> F({1}, "none", None, FALSE),
     detail   |-> F({2}, "none", None, TRUE),
     schema   |-> F({}, "none", None, FALSE)]
MCFields == DOMAIN MCField

D(parses, subscription, fields) ==
    [parses |-> parses, subscription |-> subscription, fields |-> fields]

MCDocument ==
    [broken  |-> D(FALSE, FALSE, <<>>),
     numbers |-> D(TRUE, FALSE, <<"huge", "asText">>),
     paint   |-> D(TRUE, FALSE, <<"red", "half">>),
     mend    |-> D(TRUE, FALSE, <<"negative", "nan", "schema">>),
     fix     |-> D(TRUE, FALSE, <<"asFloat">>),
     watch   |-> D(TRUE, TRUE, <<"look", "detail">>)]
MCQueries == DOMAIN MCDocument

Init_(t) ==
    Map(<<Member("type", Str("connection_init")),
          Member("payload", Map(<<Member("authorization", Str(t))>>))>>)

\* Members in an odd order, repeated or empty.
Start(id, text) ==
    Map(<<Member("payload", NullValue), Member("id", Str(Empty)), Member("id", Str(id)),
          Member("payload", Map(<<Member("query", Str(text)), Member("query", Str("broken")),
                                  Member("variables", NullValue)>>)),
          Member("type", Str("start")), Member("type", Str("stop"))>>)

Stop(id) == Map(<<Member("type", Str("stop")), Member("id", Str(id))>>)

MCRequests ==
    <<NullValue,
      Init_("expired"), Init_("light"), Init_("both"),
      Map(<<Member("type", Str("connection_init")), Member("payload", Map(<<>>))>>),
      Start("one", "fix"), Start("one", "watch"),
      Start(Empty, "fix"), Start("one", "broken"), Stop("one"), Stop(Empty)>>

Post(t, payload) == [token |-> t, payload |-> payload]

MCPosts ==
    <<Post("forged", NullValue),
      Post("odd", NullValue),
      Post("garbled", NullValue),
      Post("both", NullValue),
      Post("both", Map(<<Member("query", Str("paint"))>>)),
      Post("nothing", Map(<<Member("query", Str("mend"))>>)),
      Post("unfit", Map(<<Member("query", Str("numbers"))>>)),
      Post("light", Map(<<Member("variables", NullValue), Member("query", Str("numbers"))>>))>>

MCIds == {"one", "0"}
MCHttpId == "0"
MCLong == [integral |-> TRUE, min |-> -400, max |-> 300]
MCULong == [integral |-> TRUE, min |-> 0, max |-> 700]
MCDouble == [integral |-> FALSE, min |-> -1000000, max |-> 1000000]
MCLevelType == [integral |-> TRUE, min |-> 0, max |-> 300]
MCLevelRange == [min |-> 0, max |-> 200]
=============================================================================
