---------------------------- MODULE MCSchedules -----------------------------
(* The schedules table, the dialogs over it, and what the view tells of the *)
(* schedules, side by side.                                                 *)
EXTENDS ScheduleTable, ScheduleDialogs, ScheduleFigures

CONSTANTS nightly, hourly

\* study: what is looked at; figure: the part of the answers on display.
VARIABLES study, figure

Blank == [of |-> "nothing"]

\* Records whose fields may be left out.
Maybe(values) == {<<>>} \cup {<<v>> : v \in values}
Partial(records) == {[f \in {g \in DOMAIN r : r[g] # <<>>} |-> r[f][1]] : r \in records}

Names == Partial([schedule_id : Maybe({"a", "b"}), id : Maybe({"a", "b"}), namespace : Maybe({"x", "y"})])

Sections == BoundedSeq([letter : {"Y", "M", "D", "S"}, amount : 0..2], 2)
Texts ==
    [prefix : {TRUE}, sections : {<<date>> : date \in Sections}]
    \cup [prefix : {TRUE}, sections : {<<<<>>, time>> : time \in Sections}]
    \cup [prefix : BOOLEAN, sections : {<<date, <<[letter |-> "M", amount |-> 1]>>>> : date \in Sections}]

LastOutcomes ==
    Partial([outcome : Maybe({"failed", "skipped", "started", "odd"}), at : Maybe({"later"}),
             reason : Maybe({"why"})])
LastResults ==
    Partial([last_outcome : Maybe(LastOutcomes), last_fired_at : Maybe({"then"}),
             last_skipped_at : Maybe({"then"}), last_skip_reason : Maybe({"why"}),
             skipped_trigger_count : Maybe(0..1)])

Fires == Partial([outcome : Maybe({"failed", "started", "odd"}), reason : Maybe({"why"})])
FireLists == Partial([recent_actions : Maybe(BoundedSeq(Fires, 2))])

Specs == Partial([cron_expressions : Maybe({<<>>, <<"c">>, <<"c", "d">>}),
                  intervals : Maybe(BoundedSeq({<<>>} \cup [every : {"1h", "2h"}], 2))])

\* What a backfill answers: the results, and some of the figures for them.
Backfills ==
    UNION {LET CountOf(outcome) == Cardinality({i \in DOMAIN results : results[i] = outcome})
           IN  Partial([results : {<<results>>}, fires_attempted : Maybe({Len(results)}),
                        started_count : Maybe({CountOf("started")}),
                        skipped_count : Maybe({CountOf("skipped")}),
                        failed_count : Maybe({CountOf("failed")})]) :
             results \in BoundedSeq({"started", "skipped", "failed", "buffered"}, 3)}

Now == 100
Lists ==
    BoundedSeq(Partial([status : Maybe({"active", "paused"}),
                        next_fire_at : Maybe({Now - 1, Now, Now + 60})]), 2)

Preferences == Partial([columns : Maybe(BoundedSeq({"schedule_id", "status", "actions", "gone"}, 3))])

Figures ==
    [of : {"names"}, one : Names, other : Names]
    \cup [of : {"duration"}, one : Texts]
    \cup [of : {"result"}, schedule : LastResults]
    \cup [of : {"cadence"}, spec : Specs]
    \cup [of : {"fires"}, detail : FireLists]
    \cup [of : {"backfill"}, response : Backfills]
    \cup [of : {"list"}, schedules : Lists]
    \cup [of : {"columns"}, preferences : Preferences]
    \cup [of : {"focus"}, places : 0..5]

SchedulesInit ==
    /\ Init /\ DialogsInit
    /\ study \in {"table", "dialogs", "figures"} /\ figure = Blank
    /\ study # "dialogs" => \A s \in Listed : events[s] = 0
    /\ study = "table" => status[1] = "active"
    /\ study # "table" => service = FALSE /\ \A s \in Schedules : status[s] = "active"

SchedulesNext ==
    /\ UNCHANGED study
    /\ \/ study = "table" /\ Next /\ UNCHANGED <<dialogsVars, figure>>
       \/ study = "dialogs" /\ DialogsNext /\ UNCHANGED <<vars, figure>>
       \/ /\ study = "figures" /\ figure' \in (IF figure = Blank THEN Figures ELSE {Blank})
          /\ UNCHANGED <<vars, dialogsVars>>

MCSafeSpec == SchedulesInit /\ [][SchedulesNext]_<<vars, dialogsVars, study, figure>>

SchedulesSpec == MCSafeSpec /\ DialogsFairness
-----------------------------------------------------------------------------
\* What the view tells of schedules is so, whatever the engine answered: names
\* and requests, durations, cadences, fires and last results, backfills, cards and rows, columns,
\* and the focus in a dialog.
SchedulesTellTheirState ==
    /\ figure.of = "names" => RequestNamesTheRow(figure.one, figure.other)
    /\ figure.of = "duration" => \A other \in Texts : DurationsDiffer(figure.one, other)
    /\ figure.of = "result" => LastResultIsTold(figure.schedule)
    /\ figure.of = "cadence" => CadenceIsTold(figure.spec)
    /\ figure.of = "fires" => FiresAreTold(figure.detail)
    /\ figure.of = "backfill" => BackfillIsTold(figure.response)
    /\ figure.of = "list" => CardsCountRows(figure.schedules, Now)
    /\ figure.of = "columns" => OptionsKeepColumns(figure.preferences)
    /\ figure.of = "focus" => FocusStaysInDialog(figure.places)
=============================================================================
