-------------------------- MODULE MCCronScheduler --------------------------
EXTENDS CronScheduler
=============================================================================
