------------------------------ MODULE MCCalibration ------------------------------
EXTENDS Calibration

CONSTANTS c1, c2

\* One run of each stage, the first of them perhaps a dev test.
OneLadder == {<<c1, "calibration_200", FALSE>>, <<c1, "calibration_200", TRUE>>,
              <<c2, "calibration_5k", FALSE>>}
==================================================================================
