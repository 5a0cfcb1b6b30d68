----------------------------- MODULE MCLibraryServer -----------------------------
(* Databases of every older version that still has work to do, and one up to date. *)
EXTENDS LibraryServer

Empty == [i \in {} |-> 0]
Base == [version |-> Target, videos |-> Empty, readings |-> Empty, tracks |-> Empty,
         albums |-> Empty, profiles |-> {}, accounts |-> Empty,
         device |-> [profile |-> Nobody, account |-> Nobody]]
Row(path, old) == [path |-> path, old |-> old]
Pair(a, b) == [i \in 1..2 |-> IF i = 1 THEN a ELSE b]

MCReaders == {"ann", "bob"}

Videos ==
  {[Base EXCEPT !.version = 10, !.videos = Pair(Row(Relative("p"), Absolute("p")), v)] :
     v \in {Row(Relative("q"), Absolute("q")), Row(Absolute("q"), Absolute("q")),
            Row(Absolute(Elsewhere), Relative("q"))}}

Reading(path, there, mark) ==
  [path |-> path, old |-> Absolute("p"), there |-> there,
   mark |-> [r \in MCReaders |-> IF r = "ann" THEN mark ELSE 3 - mark]]
Read(there, mark) == [Reading(Relative("p"), there, mark) EXCEPT !.old = Relative("p")]
Readings ==
  {[Base EXCEPT !.version = 12, !.readings = Pair(Read(a, 1), Read(b, n)),
                !.profiles = MCReaders] : a, b \in BOOLEAN, n \in {0, 3}} \cup
  {[Base EXCEPT !.version = 10, !.readings = Pair(Reading(Relative("p"), a, m), Reading(r, b, n)),
                !.profiles = MCReaders] :
     a, b \in BOOLEAN, m \in {1}, n \in {0, 2}, r \in {Absolute("p"), Relative("q")}}
  \cup {[Base EXCEPT !.version = 10,
            !.readings = Pair(Reading(Absolute(Elsewhere), TRUE, 1),
                              [Reading(Absolute(Elsewhere), TRUE, 0) EXCEPT !.old = Absolute(Elsewhere)])]}

Track(path, old, there, album, liked, plays, listed) ==
  [path |-> path, old |-> old, there |-> there, album |-> album, liked |-> liked,
   plays |-> plays, listed |-> listed]
Tracks ==
  {[Base EXCEPT !.version = 13,
      !.albums = Pair([path |-> Absolute("p"), old |-> Absolute("p"), artists |-> {"x"}],
                      [path |-> Relative("p"), old |-> Relative("p"), artists |-> {"y"}]),
      !.tracks = Pair(Track(Relative("p"), Relative("p"), TRUE, 1, l, 1, ~l),
                      Track(t, Absolute("p"), b, 2, ~l, n, m))] :
     l, m, b \in BOOLEAN, n \in {0, 2}, t \in {Absolute("p"), Relative("q")}}

Account(name, display, deleted) == [name |-> name, display |-> display, deleted |-> deleted]
Accounts ==
  {[Base EXCEPT !.version = 14, !.profiles = {"ann"}, !.device.profile = "ann"]}
  \cup
  {[Base EXCEPT !.version = v, !.profiles = {"a"},
      !.device = [profile |-> IF v < 16 THEN "a" ELSE Nobody, account |-> w],
      !.accounts = [k \in {"a", "b", "c"} |->
         IF k = "a" THEN Account("ann", x, FALSE)
         ELSE IF k = "b" THEN Account("bob", y, FALSE) ELSE Account("cat", Nobody, c)]] :
     v \in {15, 17}, x \in {"ann", "bob", "cat"}, y \in {"ann", "eve"}, c \in BOOLEAN,
     w \in {Nobody, "b"}}

Running == {[Base EXCEPT !.readings = Pair(Read(TRUE, 1),
                                           [Reading(Relative("q"), TRUE, 0) EXCEPT !.old = Relative("q")])]}
MCDatabases == Videos \cup Readings \cup Tracks \cup Accounts \cup Running
MCPlaces == {"p", "q"}
MCOnDisk == {"p"}
===================================================================================
