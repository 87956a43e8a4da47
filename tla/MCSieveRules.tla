----------------------------- MODULE MCSieveRules -----------------------------
(* The instance TLC checks.  The pages are interchangeable; what they saw  *)
(* no longer matters when the last request has begun, as no action asks.   *)
EXTENDS SieveRules, TLC

PageSymmetry == Permutations(Pages)

WhatMatters == <<serverVars, job, IF jobs < MaxJobs THEN views ELSE Nil, historyVars, jobs, trouble>>
===============================================================================
