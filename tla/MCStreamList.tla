----------------------------- MODULE MCStreamList -----------------------------
(* Instances of StreamList for TLC.                                          *)
EXTENDS StreamList

Query(sortBy_, sortOrder_, modes_, statuses_, pageSize_, page_) ==
    [sortBy |-> sortBy_, sortOrder |-> sortOrder_, modes |-> modes_, statuses |-> statuses_,
     pageSize |-> pageSize_, page |-> page_]

\* Walks by each field, in pages of one and of two, and with the defaults under a filter;
\* requests for a page that may exist, and for one past the end and, in pages of two, beyond
\* an int; parameters that are refused.
SomeQueries ==
    {Query("started", "desc", {}, {}, 1, 0), Query("status", "", {}, {}, 0, 0),
     Query("launchMode", "desc", {}, {}, 1, 0),
     Query("", "", {"docker_container"}, {"running"}, 0, 0)}
    \cup {Query("", "", {}, {}, 0, page_) : page_ \in {2, 5}}
    \cup {Query(Bad, "", {}, {}, 0, 0), Query("", Bad, {}, {}, 0, 0),
          Query("", "", {Bad}, {}, 0, 0), Query("", "", {}, {Bad, "running"}, 0, 0),
          Query("", "", {}, {}, -1, 0), Query("", "", {}, {}, 2, -1)}

OneQuery == {Query("uuid", "asc", {}, {}, 2, 0)}

ThreeStreams == 1 .. 3
TwoStreams == 1 .. 2
=============================================================================
