------------------------------ MODULE WebSearch ------------------------------
(***************************************************************************)
(* The tool web_search (tools/builtin/search.py): which provider one call  *)
(* asks, what it makes of the answer and what the agent is told.           *)
(*                                                                         *)
(* A call c is a record:                                                   *)
(*   settings  [provider, base, key, cse]: the configured provider, and    *)
(*             whether a base_url, an api_key and a google_cse_id are set  *)
(*   asked     the provider the agent names, or "none"                     *)
(*   max       max_results, any integer a model may send                   *)
(*   date      start_date and end_date: "none", "good" or "bad"            *)
(*   served    whether the request gets an answer, of status 200           *)
(*   page      what the server found, a sequence of [id, snippet]: whether *)
(*             the entry has a text under its title                        *)
(* A base_url is the address of a server of the configured provider.       *)
(***************************************************************************)
EXTENDS Integers, FiniteSets, Sequences, SequencesExt

CONSTANT DefaultMaxResults

ASSUME SearchAssumption == DefaultMaxResults \in Nat \ {0}

-----------------------------------------------------------------------------
(* Asking *)

SearchProviders == {"duckduckgo", "brave", "tavily", "serpapi", "bing", "google_cse"}

Canonical(provider) ==
  CASE provider = "ddg" -> "duckduckgo" [] provider = "google" -> "google_cse"
    [] OTHER -> provider

\* from_settings: a provider that is named keeps the base_url of the other.
ProviderOf(c) == Canonical(IF c.asked = "none" THEN c.settings.provider ELSE c.asked)
ServerOf(c) == IF c.settings.base THEN Canonical(c.settings.provider) ELSE ProviderOf(c)

\* What is raised before anything is asked: only tavily looks at the dates.
Askable(c) ==
  /\ ProviderOf(c) \in SearchProviders
  /\ ProviderOf(c) # "duckduckgo" => c.settings.key
  /\ ProviderOf(c) = "google_cse" => c.settings.cse
  /\ ProviderOf(c) = "tavily" => c.date # "bad"

\* search: 0 is no number, a negative one goes on.
Wanted(c) == IF c.max = 0 THEN DefaultMaxResults ELSE c.max

-----------------------------------------------------------------------------
(* Reading the answer *)

Least(m, n) == IF m < n THEN m ELSE n

\* items[:max_results]: a negative number leaves the last ones out.
FirstOf(items, max) ==
  SubSeq(items, 1, IF max >= 0 THEN Least(max, Len(items)) ELSE Len(items) + max)

\* The JSON of an interface, whose entries have their texts with them; in the
\* JSON of another provider nothing is found.
ReadJson(c) ==
  LET found == IF ServerOf(c) = ProviderOf(c) THEN FirstOf(c.page, Wanted(c)) ELSE <<>>
  IN [k \in DOMAIN found |->
        [rank |-> k, id |-> found[k].id,
         snippet |-> IF found[k].snippet THEN found[k].id ELSE 0]]

\* Mutant: the loop ends after it has had enough.
EntriesReadTooFar(c) ==
  IF ServerOf(c) # "duckduckgo" THEN 0 ELSE Least(Wanted(c) + 1, Len(c.page))

\* How many entries of the page are read: the loop ends when it has enough, but
\* not before the first.
EntriesRead(c) ==
  IF ServerOf(c) # "duckduckgo" THEN 0
  ELSE Least(IF Wanted(c) > 0 THEN Wanted(c) ELSE 1, Len(c.page))

\* _parse_duckduckgo_html: titles and texts are searched for separately and go
\* together by number.
ReadHtml(c) ==
  LET snippets == SelectSeq(c.page, LAMBDA e : e.snippet)
  IN [k \in 1 .. EntriesRead(c) |->
        [rank |-> k, id |-> c.page[k].id,
         snippet |-> IF k <= Len(snippets) THEN snippets[k].id ELSE 0]]

\* HTML is not JSON, which raises.
Readable(c) == ProviderOf(c) # "duckduckgo" => ServerOf(c) # "duckduckgo"

\* search and _format_results: whatever is raised becomes a text.
Told(c) ==
  LET items == IF ProviderOf(c) = "duckduckgo" THEN ReadHtml(c) ELSE ReadJson(c)
  IN IF ~(Askable(c) /\ c.served /\ Readable(c)) THEN [as |-> "error", items |-> <<>>]
     ELSE IF items = <<>> THEN [as |-> "nothing", items |-> <<>>]
     ELSE [as |-> "results", items |-> items]

-----------------------------------------------------------------------------
(* Properties *)

\* An agent that wants n > 0 results, or leaves the number out, is given the
\* first n of what the provider found, in its order and numbered from 1; and the
\* text of each, except of DuckDuckGo's after one that has no text.  That there
\* are none it is told only if nothing was found, if a negative number left them
\* out, or if the request went to the server of another provider.
SearchIsHonest(c) ==
  LET told == Told(c)
      texts(k) == \A j \in 1 .. k : c.page[j].snippet
  IN /\ told.as = "nothing" =>
          c.page = <<>> \/ c.max < 0 \/ ServerOf(c) # ProviderOf(c)
     /\ c.max >= 0 /\ told.as = "results" =>
          Len(told.items) = Least(Wanted(c), Len(c.page))
     /\ \A k \in DOMAIN told.items :
          /\ told.items[k].rank = k /\ told.items[k].id = c.page[k].id
          /\ ProviderOf(c) # "duckduckgo" \/ texts(k) =>
               told.items[k].snippet = (IF c.page[k].snippet THEN c.page[k].id ELSE 0)
=============================================================================
