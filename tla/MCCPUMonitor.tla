---------------------------- MODULE MCCPUMonitor ----------------------------
(* CPUMonitor on a host whose readings cover every case of both switches.  *)
EXTENDS CPUMonitor

\* <<idle, total>>: 100%, 92%, exactly 90%, 80%, 40% and an idle counter that
\* outruns the total.
HostReadings == {<<0, 100>>, <<8, 100>>, <<10, 100>>, <<20, 100>>, <<60, 100>>,
                 <<101, 100>>}
=============================================================================
