---------------------------- MODULE MCApplication ----------------------------
EXTENDS Application

CONSTANTS e1, e2

Plain(op) == [op |-> op, quiet |-> FALSE]
Record(attr, value, typed) == [attr |-> attr, value |-> value, typed |-> typed]

\* Every kind of command, with the arguments that reach every branch.
MCCommands ==
    {Plain("on"), Plain("toggle"), [op |-> "off", quiet |-> TRUE],
     Plain("recall"), Plain("read"),
     [op |-> "timed", onlyWhenOn |-> FALSE, time |-> 2, wait |-> 0, quiet |-> TRUE],
     [op |-> "timed", onlyWhenOn |-> FALSE, time |-> 1, wait |-> 1, quiet |-> TRUE],
     [op |-> "timed", onlyWhenOn |-> TRUE, time |-> 1, wait |-> 0, quiet |-> FALSE],
     [op |-> "configure", min |-> 0, max |-> 1, quiet |-> FALSE],
     [op |-> "configure", min |-> 3, max |-> 0, quiet |-> FALSE],
     [op |-> "configure", min |-> 2, max |-> 1, quiet |-> FALSE],
     [op |-> "write", records |-> <<Record("onTime", 3, TRUE), Record("onTime", 1, TRUE),
                                    Record("onOff", 1, TRUE)>>, quiet |-> FALSE],
     [op |-> "undivided", records |-> <<Record("onTime", 2, TRUE), Record("offWait", 1, TRUE)>>,
      quiet |-> FALSE],
     [op |-> "undivided", records |-> <<Record("offWait", 2, TRUE), Record("onTime", 1, FALSE)>>,
      quiet |-> FALSE],
     [op |-> "unanswered", records |-> <<Record("offWait", 1, TRUE), Record("none", 1, TRUE)>>,
      quiet |-> TRUE]}
=============================================================================
