------------------------ MODULE MCNotificationContent ------------------------
EXTENDS NotificationContent

\* A slot is an hour: a night over midnight, some hours of the day, the
\* longest window of all, and one whose ends are the same.
MCWindows == {<<22, 7>>, <<9, 12>>, <<1, 0>>, <<5, 5>>}

\* The clock is put on or back by an hour, or stays as it is.
MCShifts == {[at |-> 0, by |-> 0]} \cup [at : {2, 8, 24, 30}, by : {1, 23}]

MCStored == {{"en", "hi"}, {"en"}, {"hi"}}

\* Below, at and above one message, with no link, links that leave room for
\* words, links that leave none, and links that do not fit.
MCSmsLengths ==
    {[words |-> w, links |-> l] : w \in {0, 160}, l \in {0, 119, 157, 161}}
=============================================================================
