----------------------------- MODULE MCFilters -----------------------------
(* Filters for TLC: what is streamed, saved and searched for. *)
EXTENDS Filters

CONSTANTS web, db, info, error, word, star

Entry(c, isEvent, level, text) ==
  [source |-> c, container |-> c, isEvent |-> isEvent, level |-> level, text |-> text]

Log(c, level, text) == [Entry(c, FALSE, level, text) EXCEPT !.container = NoContainer]

MCTexts == {"begins", "ends", "without"}

\* The word stands at the beginning of a text, or behind the place where its match in the
\* former ended, or not in it; the star also matches nothing, at every place.
MCHits(p, t) ==
  CASE p = word -> IF t = "begins" THEN {<<0, 1>>} ELSE IF t = "ends" THEN {<<2, 3>>} ELSE {}
    [] p = star -> {<<i, i>> : i \in 0..3}
    [] OTHER -> {}

MCEntries == { Entry(web, FALSE, info, "begins"), Entry(web, FALSE, error, "without"),
               Entry(db, FALSE, info, "ends"), Entry(db, TRUE, error, "without") }

\* No logs, as of a deleted snapshot, and more than the buffer holds.
MCSnapshots == { <<>>, <<Log(web, info, "begins")>>,
                 <<Log(web, info, "begins"), Log(db, error, "without"),
                   Log(web, error, "ends"), Log(db, info, "begins")>> }
=============================================================================
