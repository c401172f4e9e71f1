------------------------------ MODULE MCLiveView ------------------------------
EXTENDS LiveView

\* What happens beside a submission and a resume.
AllScenes ==
    {{"break", "delete"}, {"break", "restart"}, {"restart", "log"}, {"others"}, {"phase", "fail"},
     {"skip"}, {"click"}}
=============================================================================
