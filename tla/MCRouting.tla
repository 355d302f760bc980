----------------------------- MODULE MCRouting -----------------------------
(* Instances of Routing for TLC *)
EXTENDS Routing

\* Categories "N", "N.H" and, on a logger of the multi-log's list, "NH"
MCOwnName == [net |-> <<"N">>, http |-> <<"H">>, other |-> <<"N", "H">>]
MCWrapped == [net |-> "multi", http |-> "net", other |-> "a"]

Text == {"text"}
Entry(level, forced) == [level |-> level, forced |-> forced]
Item(name, level) == [name |-> name, level |-> level]
Quiet == [sinks |-> <<"a", "b">>, ownHooks |-> {}, made |-> {}, ops |-> [t1 |-> {"Log"}, t2 |-> {}],
          to |-> {"multi"}, forms |-> Text, entries |-> {Entry(0, FALSE)}, configs |-> {}, levels |-> {},
          specs |-> {}, maxCalls |-> 2, files |-> {}, perWrite |-> {}]

\* The list changes while an entry is passed on
Lists == [Quiet EXCEPT !.ops.t2 = {"AddLogger", "RemoveLogger", "RemoveAllLoggers"}, !.maxCalls = 3]
\* The loggers are initialized, reconfigured, opened and closed by two threads
Lives == [Quiet EXCEPT !.ops = [t1 |-> {"Log", "Initialize", "Close"},
                                t2 |-> {"Initialize", "Reconfigure", "Open", "Close", "Flush", "AddLogger"}],
                       !.maxCalls = 3, !.sinks = <<"b">>, !.ownHooks = {"a"}, !.to = {"multi", "a"},
                       !.configs = {[hook |-> TRUE, level |-> 0], [hook |-> FALSE, level |-> 1]}]
\* Two files, of which one is opened for each entry, written to meanwhile
Files == [Quiet EXCEPT !.ops = [t1 |-> {"Initialize", "Close"},
                                t2 |-> {"Initialize", "Reconfigure", "Open", "AddLogger"}],
                       !.maxCalls = 2, !.sinks = <<"b">>, !.files = {"a", "b"}, !.perWrite = {"b"},
                       !.configs = {[hook |-> FALSE, level |-> 0]}]
\* Levels change while entries are logged in every form
Gates == [Quiet EXCEPT !.made = {"net", "http"}, !.forms = Forms,
                       !.ops.t2 = {"SetMinimumLevel", "ResetMinimumLevel", "SetEnabled"},
                       !.to = {"http", "net", "multi", "a"},
                       !.entries = {Entry(0, FALSE), Entry(1, FALSE), Entry(0, TRUE), Entry(2, TRUE)},
                       !.levels = {0, 1}]
\* Rules are applied while categories are made, destroyed, and set on their own:
\* N=1, n.H=0, *=2; nh=1, *=0, NH=2; two invalid ones; N.H=1 with an empty item
Ruled == [Quiet EXCEPT !.ops = [t1 |-> {"ApplyLevels", "SetMinimumLevel", "ResetMinimumLevel"},
                                t2 |-> {"Make", "Destroy", "Log"}],
                       !.to = {"http", "other"}, !.levels = {0}, !.maxCalls = 3,
                       !.specs = {<<Item(<<"N">>, 1), Item(<<"n", ".", "H">>, 0), Item(<<"*">>, 2)>>,
                                  <<Item(<<"n", "h">>, 1), Item(<<"*">>, 0), Item(<<"N", "H">>, 2)>>,
                                  <<Item(<<"N">>, 2), Item(<<"N", "*">>, 0)>>,
                                  <<Item(<<"N">>, 9)>>,
                                  <<Item(<<>>, NoOwnLevel), Item(<<"N", ".", "H">>, 1)>>}]
MCInstances == {Lists, Lives, Files, Gates, Ruled}
=============================================================================
