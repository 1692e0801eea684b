---------------------------- MODULE ClientConfig ----------------------------
(***************************************************************************)
(* GridClientConfigBuilder (grid_client/mod.rs): setters called in any     *)
(* order and any number of times, then build().                            *)
(***************************************************************************)
EXTENDS Naturals, Sequences, FiniteSets

CONSTANTS
    Endpoints,     \* substrate, grid proxy, graphql, relay
    Urls,          \* the URLs a caller passes
    UrlLists,      \* the lists of URLs a caller passes
    Presets,       \* network preset -> endpoint -> list of URLs
    Spellings,     \* network name as passed -> preset, or NoPreset
    NoPreset,
    Timeouts,      \* values of http_timeout (rmb_timeout is alike)
    MaxSetters     \* bound: how many setters are called

(* A URL as far as normalize_url looks at it: what is left without blanks  *)
(* and trailing slashes, and how many slashes those are.                   *)
ASSUME ConfigAssumption ==
    /\ \A u \in Urls : DOMAIN u = {"host", "slashes"} /\ u.slashes \in Nat
    /\ UrlLists \subseteq Seq(Urls)
    /\ \A n \in DOMAIN Presets : \A e \in Endpoints :
          Presets[n][e] \in Seq(Urls) \ {<<>>}
    /\ \A s \in DOMAIN Spellings : Spellings[s] \in DOMAIN Presets \union {NoPreset}
    /\ "dev" \in DOMAIN Presets
    /\ MaxSetters \in Nat /\ 30 \in Timeouts

VARIABLES
    single, list,  \* the singular and the plural field of each endpoint
    timeout,
    built,         \* the builder was consumed by build(), or has panicked
    setters        \* history: the calls so far

configVars == <<single, list, timeout, built, setters>>

Blank == [host |-> "", slashes |-> 0]

NormalizeUrl(u) == [u EXCEPT !.slashes = 0]

(* The places of a list that are not blank, and the k-th of them.          *)
Usable(us) == {i \in DOMAIN us : us[i].host # ""}
UsablePlace(us, k) ==
    CHOOSE i \in Usable(us) : Cardinality({j \in Usable(us) : j <= i}) = k

NormalizeUrls(us) ==
    [k \in 1 .. Cardinality(Usable(us)) |-> NormalizeUrl(us[UsablePlace(us, k)])]

(* `first().cloned().unwrap_or_default()`                                  *)
FirstUrl(us) == IF us = <<>> THEN Blank ELSE us[1]

ChoosePrimary(u, us) ==
    IF NormalizeUrl(u) # Blank THEN NormalizeUrl(u) ELSE FirstUrl(us)

PresetLists(n) == [e \in Endpoints |-> NormalizeUrls(Presets[n][e])]

(* GridClientConfig::builder: the dev preset.                              *)
ConfigInit ==
    /\ list = PresetLists("dev")
    /\ single = [e \in Endpoints |-> FirstUrl(list[e])]
    /\ timeout = 30
    /\ built = "no" /\ setters = <<>>

Setter(what, e, value) ==
    /\ built = "no" /\ Len(setters) < MaxSetters
    /\ setters' = Append(setters, [what |-> what, e |-> e, value |-> value])

(* Mutant of SetNetwork: the URLs that were set before are kept.           *)
SetNetworkKeepsSingle(s) ==
    /\ Setter("network", "all", s)
    /\ IF Spellings[s] = NoPreset
       THEN built' = "panic" /\ UNCHANGED list
       ELSE list' = PresetLists(Spellings[s]) /\ built' = built
    /\ UNCHANGED <<single, timeout>>

(* A name that is no preset panics; the timeouts survive.                  *)
SetNetwork(s) ==
    /\ Setter("network", "all", s)
    /\ IF Spellings[s] = NoPreset
       THEN built' = "panic" /\ UNCHANGED <<single, list>>
       ELSE /\ list' = PresetLists(Spellings[s])
            /\ single' = [e \in Endpoints |-> FirstUrl(list'[e])]
            /\ built' = built
    /\ UNCHANGED timeout

SetUrl(e, u) ==
    /\ Setter("url", e, u)
    /\ single' = [single EXCEPT ![e] = u]
    /\ UNCHANGED <<list, timeout, built>>

SetUrls(e, us) ==
    /\ Setter("urls", e, us)
    /\ list' = [list EXCEPT ![e] = us]
    /\ single' = [single EXCEPT ![e] = Blank]
    /\ UNCHANGED <<timeout, built>>

SetTimeout(t) ==
    /\ Setter("timeout", "all", t)
    /\ timeout' = t
    /\ UNCHANGED <<single, list, built>>

Build ==
    /\ built = "no"
    /\ list' = [e \in Endpoints |-> NormalizeUrls(list[e])]
    /\ single' = [e \in Endpoints |-> ChoosePrimary(single[e], list'[e])]
    /\ built' = "yes"
    /\ UNCHANGED <<timeout, setters>>

ConfigNext ==
    \/ \E s \in DOMAIN Spellings : SetNetwork(s)
    \/ \E e \in Endpoints : \/ \E u \in Urls : SetUrl(e, u)
                            \/ \E us \in UrlLists : SetUrls(e, us)
    \/ \E t \in Timeouts : SetTimeout(t)
    \/ Build

ConfigSpec == ConfigInit /\ [][ConfigNext]_configVars

-----------------------------------------------------------------------------
(* The number of the last of these calls to a setter, 0 if there is none.  *)
LastSetter(calls, what, e) ==
    LET S == {i \in DOMAIN calls : calls[i].what = what /\ calls[i].e = e}
    IN IF S = {} THEN 0 ELSE CHOOSE i \in S : \A j \in S : j <= i

LastNetwork(calls) == LastSetter(calls, "network", "all")
LastTimeout(calls) == LastSetter(calls, "timeout", "all")

(* The README's "Override behavior", read off the calls alone: network()   *)
(* starts afresh, a list replaces the candidates and unpins the primary    *)
(* endpoint, a single URL pins it.                                         *)
Relisted(calls, e) == LastSetter(calls, "urls", e) > LastNetwork(calls)
Pinned(calls, e) ==
    /\ LastSetter(calls, "url", e) > LastNetwork(calls)
    /\ LastSetter(calls, "url", e) > LastSetter(calls, "urls", e)

Chosen(calls) ==
    IF LastNetwork(calls) = 0 THEN "dev" ELSE Spellings[calls[LastNetwork(calls)].value]
PinOf(calls, e) == calls[LastSetter(calls, "url", e)].value
CandidatesOf(calls, e) ==
    IF Relisted(calls, e) THEN calls[LastSetter(calls, "urls", e)].value
    ELSE Presets[Chosen(calls)][e]

(* The primary endpoint is the pinned one or the first candidate that is   *)
(* not blank, without trailing slashes; a timeout is the one set last,     *)
(* whatever network() was called since.                                    *)
BuiltAsDocumented ==
    built = "yes" =>
        /\ timeout = IF LastTimeout(setters) = 0 THEN 30
                     ELSE setters[LastTimeout(setters)].value
        /\ \A e \in Endpoints :
              LET us == CandidatesOf(setters, e)
                  pinned == Pinned(setters, e) /\ PinOf(setters, e).host # ""
              IN /\ single[e].slashes = 0
                 /\ pinned => single[e].host = PinOf(setters, e).host
                 /\ ~pinned /\ Usable(us) # {} =>
                       \E i \in Usable(us) : /\ single[e].host = us[i].host
                                             /\ \A j \in Usable(us) : i <= j
                 /\ ~pinned /\ Usable(us) = {} => single[e] = Blank
=============================================================================
