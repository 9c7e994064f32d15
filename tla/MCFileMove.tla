----------------------------- MODULE MCFileMove -----------------------------
EXTENDS FileMove

\* A database with its log, alone or with an extra file of another
\* directory, which may have the name of one of them.
MCLists ==
    { << <<"home", "db">>, <<"home", "wal">> >>,
      << <<"home", "db">>, <<"home", "wal">>, <<"more", "extra">> >>,
      << <<"home", "db">>, <<"home", "wal">>, <<"more", "wal">> >> }

MCDir == {"home", "more", "other"}

MCName == {"db", "wal", "extra"}

=============================================================================
