-------------------------- MODULE MCHermesPairing --------------------------
(* One Hermes profile whose configuration names a provider only in some runs *)
(* and whose API names a model.                                              *)
EXTENDS HermesExport

ProfileLists == {<<"p">>}
Page(answer, items) == [answer |-> answer, items |-> items, more |-> FALSE]
Api(answer, provider, model) ==
    [address |-> TRUE, enabled |-> {}, token |-> TRUE, health |-> answer,
     detailed |-> answer, jobs |-> answer, toolsets |-> "404",
     sessions |-> <<Page(answer, 1)>>, jobsUsage |-> 2, sessionsUsage |-> 2,
     healthUsage |-> -1, healthy |-> TRUE, provider |-> provider, model |-> model]
Down == Api("timeout", None, None)
Cli(found, provider, model) ==
    [found |-> found, jobs |-> FALSE, sessions |-> -1, provider |-> provider, model |-> model]
Config(state, provider, model) == [state |-> state, provider |-> provider, model |-> model]
Seen(api, cli, config) ==
    [dir |-> TRUE, api |-> api, cli |-> cli, logs |-> <<>>, configs |-> <<config>>,
     label |-> None]
ObservationSet == {
    Seen(Api("200", "A", "a"), Cli(FALSE, None, None), Config("missing", None, None)),
    Seen(Down, Cli(TRUE, "B", None), Config("missing", None, None)),
    Seen(Down, Cli(FALSE, None, None), Config("found", "B", None))}
=============================================================================
