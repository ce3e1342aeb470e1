--------------------------- MODULE MCWindowsService ---------------------------
\* WindowsService for TLC.
EXTENDS WindowsService, MCDaemon

\* "Start a routine to monitor all channels/routines initiated are closed.  This
\* is required for windows as windows daemon wait for process to finish": when
\* the process ends, close() has drained the pipeline and no segment is left.
ServicePushedAtClose == spc = "exit" => \A p \in Datagrams : ~OnItsWay(p)
=============================================================================
